---- MODULE Spec2Model ----
(***************************************************************************)
(* Replay engine of Forex_Elementary_System: the bar-by-bar loops of       *)
(* back_test.py and the pure layers they call (regime.py, strategy.py,     *)
(* psychology.py, session.py, costs.py, risk.py, microstructure.py).       *)
(*                                                                         *)
(* Number representation (python floats are carried as exact rationals):   *)
(*   price      integer multiples of 1e-7  (PIP_SIZE 0.0001 = 1000,        *)
(*              one broker point 0.00001 = 100)                            *)
(*   money      integer multiples of 1e-4 dollars                          *)
(*   lots       integer multiples of the lot step 0.01                     *)
(*   risk       integer multiples of 1e-4  (0.005 = 50)                    *)
(*   leverage, regime/session/volatility multipliers: tenths (5.0 = 50)    *)
(*   z-scores   hundredths (2.0 = 200); ADX in whole units                 *)
(*   time       seconds since the epoch, as in the 'time' field of a rate  *)
(***************************************************************************)
EXTENDS Integers, Sequences, FiniteSets, TLC

\* A pure function under check: its arguments, its result, and whether
\* it has been applied.
VARIABLES fn_pc, fn_in, fn_out

\* The replay.  Two replays (Runs) of the same loop advance in lockstep so
\* that statements comparing two runs can be checked: the second run sees
\* either other wall-clock readings or one other bar than the first.
\*   loop           which loop of back_test.py runs
\*   twin           what the second run may vary: "clock" or "bars"
\*   pc             "loop" while iterating, "done" after the for loop
\*   i              the loop variable
\*   window         rates[i - WARMUP_PERIOD : i] of each run
\*   equity, active_trade, trade_history, bt_state   locals of each run
\*   last           what the latest iteration of each run did
\*   diff_at        index k of the bar rates[k] in which the runs differ,
\*                  -1 if none
VARIABLES loop, twin, pc, i, window, equity, active_trade, trade_history,
          bt_state, last, diff_at

fnvars == <<fn_pc, fn_in, fn_out>>

replayvars == <<loop, twin, pc, i, window, equity, active_trade,
                trade_history, bt_state, last, diff_at>>

vars == <<fnvars, replayvars>>

ReplayIdle ==
    /\ loop = "none" /\ twin = "none" /\ pc = "idle" /\ i = 0
    /\ window = <<>> /\ equity = <<>> /\ active_trade = <<>>
    /\ trade_history = <<>> /\ bt_state = <<>> /\ last = <<>>
    /\ diff_at = -1

FnIdle == fn_pc = "idle" /\ fn_in = 0 /\ fn_out = 0

(***************************************************************************)
(* config.py / backtest_config.py                                          *)
(***************************************************************************)
PIP_SIZE == 1000

RISK_PER_TRADE == 50

MAX_EFFECTIVE_LEVERAGE == 50

VOL_Z_COMPRESSION == -100

VOL_Z_EXPANSION == 100

VOL_Z_EXTREME == 200

ADX_TREND_THRESHOLD == 25

\* RR_MIN = 2.0, in tenths
RR_MIN == 20

\* ATR_STOP_MULTIPLIER = 1.5, in tenths
ATR_STOP_MULTIPLIER == 15

\* EXTENDED_MULTIPLIER = 1.5, in tenths
EXTENDED_MULTIPLIER == 15

MAX_TRADES_PER_DAY == 5

\* the literal 5 of psychology.is_allowed
COOLDOWN_BARS == 5

\* MEDIAN_SPREAD_PRICE = 0.00010
MEDIAN_SPREAD_PRICE == 1000

\* MAX_SPREAD_MULTIPLIER = 1.5, in tenths
MAX_SPREAD_MULTIPLIER == 15

\* EXPECTED_SLIPPAGE_PIPS = 2.0, in thousandths of a pip
EXPECTED_SLIPPAGE_PIPS == 2000

\* FIXED_SLIPPAGE_PIPS = 2.0, in thousandths of a pip
FIXED_SLIPPAGE_PIPS == 2000

COMMISSION_PER_LOT == 0

SWAP_LONG_PER_LOT == 0

SWAP_SHORT_PER_LOT == 0

\* BE_TRIGGER_R_MULT = 1.0, in tenths
BE_TRIGGER_R_MULT == 10

BE_OFFSET_PIPS == 0

BT_MEAN_REVERSION_ONLY == TRUE

MS_ENABLE == TRUE

MS_SESSION_MULT_ASIA == 11

MS_SESSION_MULT_LONDON == 10

MS_SESSION_MULT_NY == 11

MS_SESSION_MULT_OFF == 13

MS_VOL_MULT_COMPRESSION == 8

MS_VOL_MULT_NORMAL == 10

MS_VOL_MULT_EXPANSION == 13

MS_VOL_MULT_EXTREME == 16

BLOCKED_HOURS_UTC == {3, 5, 10, 11, 12}

\* BT_INITIAL_BALANCE = 1000.00
BT_INITIAL_BALANCE == 10000000

\* BT_START_DATE = datetime(2025, 12, 1), as seconds since the epoch
BT_START_EPOCH == 1764547200

\* mt5.TIMEFRAME_M2: consecutive bars are two minutes apart
BAR_SECONDS == 120

\* WARMUP_PERIOD is 100 in backtest_config.py; the model keeps the slicing
\* rates[i - WARMUP_PERIOD : i] and scales the length down.
WARMUP_PERIOD == 2

\* len(rates) is at most MaxBars
MaxBars == 6

Min(a, b) == IF a <= b THEN a ELSE b

Max(a, b) == IF a >= b THEN a ELSE b

(***************************************************************************)
(* risk.py                                                                 *)
(***************************************************************************)
\* math.floor(lots / 0.01) * 0.01 for lots = q[1] / q[2] lot steps: the
\* result, in lot steps, is the integer quotient.
_quantize_lot_size_ceil(q) == (q[1] + q[2] - 1) \div q[2]

_quantize_lot_size(q) == q[1] \div q[2]

\* raw_lots = risk_dollars / ((stop / PIP_SIZE) * 10.0), in lot steps
\*   = (equity*1e-4 * risk*1e-4) / ((stop/1000) * 10) * 100
\*   = balance * risk / (10000 * stop)
RawLots(balance, stop_distance, risk_trade) ==
    <<balance * risk_trade, 10000 * stop_distance>>

\* current_leverage > max_leverage with
\*   current_leverage = raw_lots * 100000 * price / balance
\*                    = risk * price / (10000 * stop)       (equity cancels) 
LeverageExceeded_never(stop_distance, current_price, risk_trade, max_leverage) ==
    FALSE

LeverageExceeded(stop_distance, current_price, risk_trade, max_leverage) ==
    risk_trade * current_price > max_leverage * 1000 * stop_distance

\* raw_lots = (balance * max_leverage) / (100000 * current_price), in lot steps
CappedLots(balance, current_price, max_leverage) ==
    <<balance * max_leverage, 10 * current_price>>

simulate_size(balance, stop_distance, current_price, risk_trade, max_leverage) ==
    IF balance * risk_trade <= 0 THEN 0
    ELSE IF stop_distance <= 0 THEN 0
    ELSE LET raw_lots ==
                 IF LeverageExceeded(stop_distance, current_price,
                                     risk_trade, max_leverage)
                 THEN CappedLots(balance, current_price, max_leverage)
                 ELSE RawLots(balance, stop_distance, risk_trade)
             final_lots == _quantize_lot_size(raw_lots)
         IN  IF final_lots < 1 THEN 0 ELSE final_lots

calculate_size(balance, stop_distance, current_price) ==
    IF balance * RISK_PER_TRADE <= 0 THEN 0
    ELSE IF stop_distance <= 0 THEN 0
    ELSE LET raw_lots ==
                 IF LeverageExceeded(stop_distance, current_price,
                                     RISK_PER_TRADE, MAX_EFFECTIVE_LEVERAGE)
                 THEN CappedLots(balance, current_price, MAX_EFFECTIVE_LEVERAGE)
                 ELSE RawLots(balance, stop_distance, RISK_PER_TRADE)
             final_lots == _quantize_lot_size(raw_lots)
         IN  IF final_lots < 1 THEN 0 ELSE final_lots

\* back_test._apply_risk_multiplier; multiplier in tenths
_apply_risk_multiplier(lot_size, multiplier) ==
    IF multiplier >= 10 THEN lot_size
    ELSE LET scaled == (lot_size * Max(multiplier, 0)) \div 10
         IN  IF scaled >= 1 THEN scaled ELSE 0

(***************************************************************************)
(* regime.py                                                               *)
(***************************************************************************)
classify_volatility_ge(zscore) ==
    IF zscore < VOL_Z_COMPRESSION THEN "compression"
    ELSE IF zscore >= VOL_Z_EXTREME THEN "extreme_expansion"
    ELSE IF zscore > VOL_Z_EXPANSION THEN "expansion"
    ELSE "normal"

classify_volatility(zscore) ==
    IF zscore < VOL_Z_COMPRESSION THEN "compression"
    ELSE IF zscore > VOL_Z_EXTREME THEN "extreme_expansion"
    ELSE IF zscore > VOL_Z_EXPANSION THEN "expansion"
    ELSE "normal"

classify_structure(bar) ==
    IF bar.adx > ADX_TREND_THRESHOLD THEN "trend" ELSE "range"

\* threshold = ema_slow * 0.001; the comparisons close > ema_slow + threshold
\* and close < ema_slow - threshold are multiplied through by 1000.
classify_htf_trend(bar) ==
    IF bar.ema_slow = 0 THEN "flat"
    ELSE IF 1000 * (bar.close - bar.ema_slow) > bar.ema_slow THEN "up"
    ELSE IF 1000 * (bar.close - bar.ema_slow) < 0 - bar.ema_slow THEN "down"
    ELSE "flat"

analyze_regime(bar) ==
    LET zscore == bar.atr_zscore
        vol_state == classify_volatility(zscore)
        struct_state == classify_structure(bar)
        decision ==
            IF vol_state = "compression" \/ zscore < -200
            THEN [trade_allowed |-> FALSE, risk_multiplier |-> 0,
                  strategy_bias |-> "none"]
            ELSE IF vol_state \in {"expansion", "extreme_expansion"}
                    /\ struct_state = "range"
            THEN [trade_allowed |-> FALSE, risk_multiplier |-> 0,
                  strategy_bias |-> "none"]
            ELSE IF vol_state = "expansion" /\ struct_state = "trend"
            THEN [trade_allowed |-> TRUE, risk_multiplier |-> 7,
                  strategy_bias |-> "trend"]
            ELSE IF vol_state = "extreme_expansion" /\ struct_state = "trend"
            THEN [trade_allowed |-> TRUE, risk_multiplier |-> 5,
                  strategy_bias |-> "trend"]
            ELSE IF struct_state = "trend"
            THEN [trade_allowed |-> TRUE, risk_multiplier |-> 10,
                  strategy_bias |-> "trend"]
            ELSE [trade_allowed |-> TRUE, risk_multiplier |-> 10,
                  strategy_bias |-> "mean_reversion"]
    IN  [volatility |-> vol_state,
         structure |-> struct_state,
         trade_allowed |-> decision.trade_allowed,
         risk_multiplier |-> decision.risk_multiplier,
         strategy_bias |-> decision.strategy_bias,
         htf_trend |-> classify_htf_trend(bar)]

(***************************************************************************)
(* strategy.py                                                             *)
(***************************************************************************)
NoSignal == [direction |-> "NONE"]

\* sl_distance = atr * atr_mult, tp_distance = sl_distance * rr_mins; the
\* multipliers are in tenths and the inputs are chosen so that the products
\* are exact.
sim_construct_signal_dict(direction, bar, strategy, rr_mins, atr_mult) ==
    LET entry_price == bar.close
        sl_distance == (bar.atr * atr_mult) \div 10
        tp_distance == (sl_distance * rr_mins) \div 10
    IN  [direction |-> direction,
         strategy |-> strategy,
         entry_price |-> entry_price,
         sl |-> IF direction = "BUY" THEN entry_price - sl_distance
                ELSE entry_price + sl_distance,
         tp |-> IF direction = "BUY" THEN entry_price + tp_distance
                ELSE entry_price - tp_distance,
         stop_distance |-> sl_distance,
         target_distance |-> tp_distance]

construct_signal_dict(direction, bar, strategy) ==
    LET entry_price == bar.close
        sl_distance == (bar.atr * ATR_STOP_MULTIPLIER) \div 10
        tp_distance == (sl_distance * RR_MIN) \div 10
    IN  [direction |-> direction,
         strategy |-> strategy,
         entry_price |-> entry_price,
         sl |-> IF direction = "BUY" THEN entry_price - sl_distance
                ELSE entry_price + sl_distance,
         tp |-> IF direction = "BUY" THEN entry_price + tp_distance
                ELSE entry_price - tp_distance,
         stop_distance |-> sl_distance,
         target_distance |-> tp_distance]

TrendDirection(bar) ==
    IF bar.ema_fast > bar.ema_slow
    THEN IF bar.low <= bar.ema_fast /\ bar.close > bar.ema_fast
         THEN "BUY" ELSE "NONE"
    ELSE IF bar.ema_fast < bar.ema_slow
    THEN IF bar.high >= bar.ema_fast /\ bar.close < bar.ema_fast
         THEN "SELL" ELSE "NONE"
    ELSE "NONE"

HtfMultiplier_flat_full(direction, htf_trend) ==
    LET aligned == \/ (direction = "BUY" /\ htf_trend = "up")
                   \/ (direction = "SELL" /\ htf_trend = "down")
    IN  IF aligned \/ htf_trend = "flat" THEN 10 ELSE 0

\* htf_mult, in tenths
HtfMultiplier(direction, htf_trend) ==
    LET aligned == \/ (direction = "BUY" /\ htf_trend = "up")
                   \/ (direction = "SELL" /\ htf_trend = "down")
    IN  IF aligned THEN 10
        ELSE IF htf_trend = "flat" THEN 5 ELSE 0

\* The signal carries risk_multiplier only on this path; the replay loops
\* size from the regime's risk_multiplier and never read the signal's.
\* final_mult is the product of two multipliers in tenths, so the signal's
\* risk_multiplier is in hundredths.
get_trend_following_signal(bar, regime_context) ==
    LET direction == TrendDirection(bar)
        htf_trend == regime_context.htf_trend
        htf_mult == HtfMultiplier(direction, htf_trend)
        final_mult == regime_context.risk_multiplier * htf_mult
    IN  IF direction = "NONE" THEN NoSignal
        ELSE IF final_mult <= 0 THEN NoSignal
        ELSE construct_signal_dict(direction, bar, "trend_following")
                 @@ [risk_multiplier |-> final_mult, htf_trend |-> htf_trend]

MeanReversionDirection(bar) ==
    IF bar.zscore > 200 THEN "SELL"
    ELSE IF bar.zscore < -200 THEN "BUY"
    ELSE "NONE"

get_mean_reversion_signal(bar) ==
    IF MeanReversionDirection(bar) = "NONE" THEN NoSignal
    ELSE construct_signal_dict(MeanReversionDirection(bar), bar,
                               "mean_reversion")

sim_get_trend_following_signal(bar, rr_mins, atr_mult) ==
    IF TrendDirection(bar) = "NONE" THEN NoSignal
    ELSE sim_construct_signal_dict(TrendDirection(bar), bar,
                                   "trend_following", rr_mins, atr_mult)

sim_get_mean_reversion_signal(bar, rr_mins, atr_mult) ==
    IF MeanReversionDirection(bar) = "NONE" THEN NoSignal
    ELSE sim_construct_signal_dict(MeanReversionDirection(bar), bar,
                                   "mean_reversion", rr_mins, atr_mult)

(***************************************************************************)
(* back_test.check_exit_conditions                                         *)
(***************************************************************************)
NoExit == [result |-> "NONE"]

ExitSide_tp_first(hit_sl, hit_tp) == IF hit_tp THEN "TP" ELSE "SL"

\* exit_side = 'SL' if hit_sl else 'TP'
ExitSide(hit_sl, hit_tp) == IF hit_sl THEN "SL" ELSE "TP"

check_exit_conditions_always(trade, current_bar) ==
    [result |-> "LOSS", raw_pnl |-> 0, exit_exec |-> current_bar.close]

\* raw_pnl = (exit_exec - entry_exec) * contract_size * size: a price
\* difference d (1e-7) on h lot steps is d * 1e-7 * 100000 * h * 0.01
\* dollars, that is d * h money units.
check_exit_conditions(trade, current_bar) ==
    LET direction == trade.type
        half_spread == trade.spread \div 2
        slippage_price == (trade.slippage_pips * PIP_SIZE) \div 1000
        entry_exec == trade.entry_price
        hit_sl == IF direction = "BUY" THEN current_bar.low <= trade.sl
                  ELSE current_bar.high >= trade.sl
        hit_tp == IF direction = "BUY" THEN current_bar.high >= trade.tp
                  ELSE current_bar.low <= trade.tp
        exit_side == ExitSide(hit_sl, hit_tp)
        mid_exit == IF exit_side = "SL" THEN trade.sl ELSE trade.tp
        exit_exec == IF direction = "BUY"
                     THEN mid_exit - half_spread - slippage_price
                     ELSE mid_exit + half_spread + slippage_price
        raw_pnl == IF direction = "BUY"
                   THEN (exit_exec - entry_exec) * trade.size
                   ELSE (entry_exec - exit_exec) * trade.size
    IN  IF ~hit_sl /\ ~hit_tp THEN NoExit
        ELSE [result |-> IF exit_side = "SL" THEN "LOSS" ELSE "WIN",
              raw_pnl |-> raw_pnl,
              exit_exec |-> exit_exec]

(***************************************************************************)
(* Gates: psychology.py, session.py, costs.py; microstructure.py           *)
(***************************************************************************)
\* datetime.fromtimestamp(t).hour; the host's zone is taken to be UTC
Hour(t) == (t % 86400) \div 3600

psychology_is_allowed_no_cap(state_obj, bar) ==
    LET bars_since_last == bar.bar_index - state_obj.last_trade_bar
    IN  IF bars_since_last < COOLDOWN_BARS THEN FALSE
        ELSE IF state_obj.risk_throttle THEN FALSE
        ELSE IF state_obj.trading_disabled THEN FALSE
        ELSE TRUE

psychology_is_allowed_no_flags(state_obj, bar) ==
    LET bars_since_last == bar.bar_index - state_obj.last_trade_bar
    IN  IF state_obj.trades_today >= MAX_TRADES_PER_DAY THEN FALSE
        ELSE IF bars_since_last < COOLDOWN_BARS THEN FALSE
        ELSE TRUE

psychology_is_allowed(state_obj, bar) ==
    LET current_bar_index == bar.bar_index
        bars_since_last == current_bar_index - state_obj.last_trade_bar
    IN  IF state_obj.trades_today >= MAX_TRADES_PER_DAY THEN FALSE
        ELSE IF bars_since_last < COOLDOWN_BARS THEN FALSE
        ELSE IF state_obj.risk_throttle THEN FALSE
        ELSE IF state_obj.trading_disabled THEN FALSE
        ELSE TRUE

session_is_allowed(timestamp_utc) == Hour(timestamp_utc) \notin BLOCKED_HOURS_UTC

is_in_rollover_never(now_utc) == FALSE

\* now_utc is datetime.utcnow().time() in seconds since midnight; the
\* window is time(21, 59) .. time(22, 5), both ends included.
is_in_rollover(now_utc) == 79140 <= now_utc /\ now_utc <= 79500

\* costs.is_acceptable declares the spread as its only parameter and reads
\* the clock itself through is_in_rollover; the timestamp that back_test.py
\* adds as a second positional argument has no parameter to bind to and no
\* part in the body, which is what is evaluated here.  The spread in price
\* units equals the spread in thousandths of a pip.
is_acceptable(current_spread_price, now_utc) ==
    IF 10 * current_spread_price > MEDIAN_SPREAD_PRICE * MAX_SPREAD_MULTIPLIER
    THEN FALSE
    ELSE IF is_in_rollover(now_utc) THEN FALSE
    ELSE IF current_spread_price + EXPECTED_SLIPPAGE_PIPS > 3000 THEN FALSE
    ELSE TRUE

simulate_acceptable(current_spread_price, med_spread, max_spread_mult, expected_slippage_pips, now_utc) ==
    IF 10 * current_spread_price > med_spread * max_spread_mult THEN FALSE
    ELSE IF is_in_rollover(now_utc) THEN FALSE
    ELSE IF current_spread_price + expected_slippage_pips > 3000 THEN FALSE
    ELSE TRUE

_get_session_multiplier(timestamp_utc) ==
    LET hour == Hour(timestamp_utc)
    IN  IF 0 <= hour /\ hour < 7 THEN MS_SESSION_MULT_ASIA
        ELSE IF 7 <= hour /\ hour < 13 THEN MS_SESSION_MULT_LONDON
        ELSE IF 13 <= hour /\ hour < 21 THEN MS_SESSION_MULT_NY
        ELSE MS_SESSION_MULT_OFF

_get_vol_multiplier(atr_zscore) ==
    IF atr_zscore < VOL_Z_COMPRESSION THEN MS_VOL_MULT_COMPRESSION
    ELSE IF atr_zscore > VOL_Z_EXTREME THEN MS_VOL_MULT_EXTREME
    ELSE IF atr_zscore > VOL_Z_EXPANSION THEN MS_VOL_MULT_EXPANSION
    ELSE MS_VOL_MULT_NORMAL

\* both multipliers are in tenths
adjust_spread_slippage(base_spread_price, base_slippage_pips, atr_zscore, timestamp_utc) ==
    LET session_mult == _get_session_multiplier(timestamp_utc)
        vol_mult == _get_vol_multiplier(atr_zscore)
    IN  [spread_price |-> (base_spread_price * session_mult * vol_mult) \div 100,
         slippage_pips |-> (base_slippage_pips * session_mult * vol_mult) \div 100]

_apply_microstructure(spread_price, slippage_pips, atr_zscore, timestamp_utc) ==
    IF ~MS_ENABLE
    THEN [spread_price |-> spread_price, slippage_pips |-> slippage_pips]
    ELSE adjust_spread_slippage(spread_price, slippage_pips, atr_zscore,
                                timestamp_utc)

(***************************************************************************)
(* back_test.py: helpers of the replay loops                               *)
(***************************************************************************)
NoTrade == [type |-> "NONE"]

Abs(x) == IF x < 0 THEN 0 - x ELSE x

RECURSIVE RolloversFrom(_, _)
\* while rollover <= exit_time: count += 1; rollover += timedelta(days=1)
RolloversFrom(rollover, exit_time) ==
    IF rollover <= exit_time
    THEN 1 + RolloversFrom(rollover + 86400, exit_time)
    ELSE 0

_count_rollovers_from_entry(entry_time, exit_time) ==
    IF exit_time <= entry_time THEN 0
    ELSE LET at22 == entry_time - (entry_time % 86400) + 22 * 3600
             rollover == IF entry_time > at22 THEN at22 + 86400 ELSE at22
         IN  RolloversFrom(rollover, exit_time)

_count_rollovers(entry_time, exit_time) ==
    IF exit_time <= entry_time THEN 0
    ELSE LET at22 == entry_time - (entry_time % 86400) + 22 * 3600
             rollover == IF entry_time >= at22 THEN at22 + 86400 ELSE at22
         IN  RolloversFrom(rollover, exit_time)

\* _calc_swap with the two configured rates as arguments:
\* rate (money per lot) * size (lot steps) * rollovers
_calc_swap_at(trade, exit_time, swap_long, swap_short) ==
    LET rollovers == _count_rollovers(trade.time, exit_time)
        rate == IF trade.type = "BUY" THEN swap_long ELSE swap_short
    IN  IF rollovers <= 0 THEN 0
        ELSE (rate * trade.size * rollovers) \div 100

_calc_swap(trade, exit_time) ==
    _calc_swap_at(trade, exit_time, SWAP_LONG_PER_LOT, SWAP_SHORT_PER_LOT)

\* net_pnl = gross_pnl - commission_cost; net_pnl -= swap_cost
NetPnl(gross_pnl, commission_cost, swap_cost) ==
    gross_pnl - commission_cost - swap_cost

_select_signal_by_bias(bar_dict, market_context) ==
    LET bias == IF BT_MEAN_REVERSION_ONLY
                THEN (IF market_context.strategy_bias # "mean_reversion"
                      THEN "none" ELSE "mean_reversion")
                ELSE market_context.strategy_bias
        signal == IF bias = "trend"
                  THEN get_trend_following_signal(bar_dict, market_context)
                  ELSE IF bias = "mean_reversion"
                  THEN get_mean_reversion_signal(bar_dict)
                  ELSE NoSignal
    IN  IF signal # NoSignal
           /\ 10 * bar_dict.range > bar_dict.atr * EXTENDED_MULTIPLIER
        THEN NoSignal
        ELSE signal

_select_sim_signal_by_bias(bar_dict, market_context, rr_min, atr_multiplier, ext_mult) ==
    LET bias == IF BT_MEAN_REVERSION_ONLY
                THEN (IF market_context.strategy_bias # "mean_reversion"
                      THEN "none" ELSE "mean_reversion")
                ELSE market_context.strategy_bias
        signal == IF bias = "trend"
                  THEN sim_get_trend_following_signal(bar_dict, rr_min,
                                                      atr_multiplier)
                  ELSE IF bias = "mean_reversion"
                  THEN sim_get_mean_reversion_signal(bar_dict, rr_min,
                                                     atr_multiplier)
                  ELSE NoSignal
    IN  IF signal # NoSignal /\ 10 * bar_dict.range > bar_dict.atr * ext_mult
        THEN NoSignal
        ELSE signal

_maybe_move_breakeven_skipped(trade, current_bar) == trade

_maybe_move_breakeven_eager(trade, current_bar) ==
    IF trade.be_moved THEN trade
    ELSE [trade EXCEPT !.sl = trade.entry_price, !.be_moved = TRUE]

\* the trade dict is updated in place; the updated dict is the result
_maybe_move_breakeven(trade, current_bar) ==
    IF trade.be_moved THEN trade
    ELSE LET stop_distance == IF trade.stop_distance # 0
                              THEN trade.stop_distance
                              ELSE Abs(trade.entry_price - trade.sl)
             trigger_move == (stop_distance * BE_TRIGGER_R_MULT) \div 10
             entry_exec == trade.entry_price
             be_offset == BE_OFFSET_PIPS * PIP_SIZE
         IN  IF stop_distance <= 0 THEN trade
             ELSE IF trade.type = "BUY"
             THEN IF current_bar.high >= entry_exec + trigger_move
                  THEN [trade EXCEPT !.sl = Max(trade.sl, entry_exec + be_offset),
                                     !.be_moved = TRUE]
                  ELSE trade
             ELSE IF current_bar.low <= entry_exec - trigger_move
                  THEN [trade EXCEPT !.sl = Min(trade.sl, entry_exec - be_offset),
                                     !.be_moved = TRUE]
                  ELSE trade

\* data_adapter and opt_data_adapter: target_bar = window[-2]; the metrics
\* of enrich_bar_with_indicators(window[:-1]) / simulate_indicators(window[:-1])
\* are carried by the last bar of window[:-1]; one broker point is 0.00001.
data_adapter(win) ==
    LET target_bar == win[Len(win) - 1]
        metrics == SubSeq(win, 1, Len(win) - 1)[Len(win) - 1]
    IN  [bar_index |-> target_bar.time,
         timestamp |-> target_bar.time,
         close |-> target_bar.close,
         high |-> target_bar.high,
         low |-> target_bar.low,
         spread |-> target_bar.spread * 100,
         range |-> target_bar.high - target_bar.low,
         atr |-> metrics.atr,
         atr_zscore |-> metrics.atr_zscore,
         ema_fast |-> metrics.ema_fast,
         ema_slow |-> metrics.ema_slow,
         adx |-> metrics.adx,
         zscore |-> metrics.zscore]

opt_data_adapter(win) == data_adapter(win)

(***************************************************************************)
(* The position sizer on bounded inputs (risk.py, _apply_risk_multiplier)  *)
(***************************************************************************)
Equities == {-1000000, 0, 5000000, 9000000, 10000000, 10034500, 15000000}

StopDistances == {0, 5000, 14990, 15000, 20000}

Prices == {10000000, 11000000}

RiskFractions == {0, 25, 35, 50, 100}

Leverages == {30, 50, 100}

RiskMultipliers == {0, 5, 7, 10}

SizerInputs ==
    [fn : {"simulate_size", "calculate_size"}, equity : Equities,
     stop : StopDistances, price : Prices, risk : RiskFractions,
     lev : Leverages, mult : RiskMultipliers]

SizerInit ==
    /\ fn_pc = "call"
    /\ fn_in \in SizerInputs
    /\ fn_out = 0
    /\ ReplayIdle

CallSimulateSize ==
    /\ fn_pc = "call"
    /\ fn_in.fn = "simulate_size"
    /\ fn_out' = simulate_size(fn_in.equity, fn_in.stop, fn_in.price,
                               fn_in.risk, fn_in.lev)
    /\ fn_pc' = "done"
    /\ UNCHANGED <<fn_in, replayvars>>

\* back_test.py:647-652: calculate_size, then _apply_risk_multiplier
CallCalculateSize ==
    /\ fn_pc = "call"
    /\ fn_in.fn = "calculate_size"
    /\ fn_out' = _apply_risk_multiplier(
                     calculate_size(fn_in.equity, fn_in.stop, fn_in.price),
                     fn_in.mult)
    /\ fn_pc' = "done"
    /\ UNCHANGED <<fn_in, replayvars>>

SizerNext == CallSimulateSize \/ CallCalculateSize

SpecSizer == SizerInit /\ [][SizerNext]_vars

SizerDomain == fn_in.equity > 0 /\ fn_in.stop > 0 /\ fn_in.price > 0

SizerRisk == IF fn_in.fn = "simulate_size" THEN fn_in.risk ELSE RISK_PER_TRADE

SizerLeverage ==
    IF fn_in.fn = "simulate_size" THEN fn_in.lev ELSE MAX_EFFECTIVE_LEVERAGE

\* C6: the returned size is a whole number of lot steps and its risk,
\* size * stop_distance_pips * 10 dollars, never exceeds equity * risk.
\* (size*0.01) * (stop/1000) * 10 <= equity*1e-4 * risk*1e-4
C6_RiskBudget ==
    (fn_pc = "done" /\ SizerDomain) =>
        /\ fn_out \in Nat
        /\ fn_out * fn_in.stop * 10000 <= fn_in.equity * SizerRisk

\* the budget is met with equality: 900 dollars, 15 pips, 0.5% gives 0.03
C6_Witness ==
    /\ fn_pc = "done"
    /\ fn_in.fn = "calculate_size"
    /\ fn_in.equity = 9000000 /\ fn_in.stop = 15000 /\ fn_in.mult = 10
    /\ fn_out = 3

AtrZscores ==
    {-250, -201, -200, -199, -101, -100, -99, 0, 99, 100, 101, 199, 200,
     201, 300}

AdxValues == {0, 24, 25, 26, 40}

RegimeInputs ==
    [atr_zscore : AtrZscores, adx : AdxValues, close : {11000000},
     ema_slow : {0, 10980000, 10995000, 11000000, 11020000}]

RegimeInit ==
    /\ fn_pc = "call"
    /\ fn_in \in RegimeInputs
    /\ fn_out = 0
    /\ ReplayIdle

CallAnalyzeRegime ==
    /\ fn_pc = "call"
    /\ fn_out' = analyze_regime(fn_in)
    /\ fn_pc' = "done"
    /\ UNCHANGED <<fn_in, replayvars>>

RegimeNext == CallAnalyzeRegime

SpecRegime == RegimeInit /\ [][RegimeNext]_vars

RegimeIs(allowed, multiplier, bias) ==
    /\ fn_out.trade_allowed = allowed
    /\ fn_out.risk_multiplier = multiplier
    /\ fn_out.strategy_bias = bias

\* C9: the regime decision table with its strict / non-strict comparisons:
\* z = c_lo and z = c_hi are normal, z = c_extreme is expansion,
\* adx = threshold is range, and z < -2.0 is vetoed for every ADX.
C9_RegimeTable ==
    fn_pc = "done" =>
        LET z == fn_in.atr_zscore
            adx == fn_in.adx
            c_lo == VOL_Z_COMPRESSION
            c_hi == VOL_Z_EXPANSION
            c_extreme == VOL_Z_EXTREME
            threshold == ADX_TREND_THRESHOLD
        IN  /\ (z < c_lo \/ z < -200) => RegimeIs(FALSE, 0, "none")
            /\ (z > c_hi /\ adx <= threshold) =>
                   (~fn_out.trade_allowed /\ fn_out.risk_multiplier = 0)
            /\ (c_hi < z /\ z <= c_extreme /\ adx > threshold) =>
                   RegimeIs(TRUE, 7, "trend")
            /\ (z > c_extreme /\ adx > threshold) =>
                   RegimeIs(TRUE, 5, "trend")
            /\ (c_lo <= z /\ z <= c_hi /\ adx > threshold) =>
                   RegimeIs(TRUE, 10, "trend")
            /\ (c_lo <= z /\ z <= c_hi /\ adx <= threshold) =>
                   RegimeIs(TRUE, 10, "mean_reversion")

\* z exactly at the extreme threshold with a trend is still 'expansion'
C9_Witness ==
    /\ fn_pc = "done"
    /\ fn_in.atr_zscore = 200 /\ fn_in.adx = 26
    /\ fn_out.volatility = "expansion"
    /\ fn_out.risk_multiplier = 7

(***************************************************************************)
(* back_test.check_exit_conditions on bounded inputs                       *)
(***************************************************************************)
PriceLevels == {10970000, 10985000, 11000000, 11015000, 11030000}

\* an open trade has its stop on the loss side of its target

ExitInputs ==
    {x \in [type : {"BUY", "SELL"}, entry_price : {11000000, 11003500},
            sl : PriceLevels, tp : PriceLevels, size : {3},
            spread : {1000}, slippage_pips : {2000},
            high : PriceLevels, low : PriceLevels] :
        /\ x.low <= x.high
        /\ IF x.type = "BUY" THEN x.sl < x.tp ELSE x.tp < x.sl}

ExitInit ==
    /\ fn_pc = "call"
    /\ fn_in \in ExitInputs
    /\ fn_out = 0
    /\ ReplayIdle

CallCheckExit ==
    /\ fn_pc = "call"
    /\ fn_out' = check_exit_conditions(fn_in, fn_in)
    /\ fn_pc' = "done"
    /\ UNCHANGED <<fn_in, replayvars>>

ExitNext == CallCheckExit

SpecExit == ExitInit /\ [][ExitNext]_vars

BothTriggered ==
    IF fn_in.type = "BUY"
    THEN fn_in.low <= fn_in.sl /\ fn_in.high >= fn_in.tp
    ELSE fn_in.high >= fn_in.sl /\ fn_in.low <= fn_in.tp

\* C5: when the stop and the target condition hold on the same bar the
\* result is LOSS and the fill is priced from the stop.
C5_StopPriority ==
    (fn_pc = "done" /\ BothTriggered) =>
        /\ fn_out.result = "LOSS"
        /\ fn_out.exit_exec =
               IF fn_in.type = "BUY"
               THEN fn_in.sl - (fn_in.spread \div 2) - fn_in.slippage_pips
               ELSE fn_in.sl + (fn_in.spread \div 2) + fn_in.slippage_pips

C5_Witness ==
    /\ fn_pc = "done"
    /\ fn_in.type = "BUY"
    /\ fn_in.sl = 10985000 /\ fn_in.tp = 11030000
    /\ fn_in.low = 10970000 /\ fn_in.high = 11030000
    /\ fn_out.result = "LOSS"

(***************************************************************************)
(* The signal generators of strategy.py on bounded inputs                  *)
(***************************************************************************)
SignalInputs ==
    [fn : {"mean_reversion", "trend", "sim_mean_reversion", "sim_trend"},
     close : {11000000}, high : {11005000}, low : {10995000},
     atr : {0, 10000, 20000}, zscore : {-250, 0, 250},
     ema_fast : {10998000, 11002000}, ema_slow : {10990000, 11010000},
     htf_trend : {"up", "down", "flat"}, risk_multiplier : {5, 7, 10},
     rr_mins : {20, 30}, atr_mult : {15, 20}]

SignalInit ==
    /\ fn_pc = "call"
    /\ fn_in \in SignalInputs
    /\ fn_out = 0
    /\ ReplayIdle

CallMeanReversion ==
    /\ fn_pc = "call"
    /\ fn_in.fn = "mean_reversion"
    /\ fn_out' = get_mean_reversion_signal(fn_in)
    /\ fn_pc' = "done"
    /\ UNCHANGED <<fn_in, replayvars>>

CallTrendFollowing ==
    /\ fn_pc = "call"
    /\ fn_in.fn = "trend"
    /\ fn_out' = get_trend_following_signal(fn_in, fn_in)
    /\ fn_pc' = "done"
    /\ UNCHANGED <<fn_in, replayvars>>

CallSimMeanReversion ==
    /\ fn_pc = "call"
    /\ fn_in.fn = "sim_mean_reversion"
    /\ fn_out' = sim_get_mean_reversion_signal(fn_in, fn_in.rr_mins,
                                               fn_in.atr_mult)
    /\ fn_pc' = "done"
    /\ UNCHANGED <<fn_in, replayvars>>

CallSimTrendFollowing ==
    /\ fn_pc = "call"
    /\ fn_in.fn = "sim_trend"
    /\ fn_out' = sim_get_trend_following_signal(fn_in, fn_in.rr_mins,
                                                fn_in.atr_mult)
    /\ fn_pc' = "done"
    /\ UNCHANGED <<fn_in, replayvars>>

SignalNext ==
    \/ CallMeanReversion
    \/ CallTrendFollowing
    \/ CallSimMeanReversion
    \/ CallSimTrendFollowing

SpecSignal == SignalInit /\ [][SignalNext]_vars

SignalStopMultiplier ==
    IF fn_in.fn \in {"mean_reversion", "trend"}
    THEN ATR_STOP_MULTIPLIER ELSE fn_in.atr_mult

SignalRR == IF fn_in.fn \in {"mean_reversion", "trend"}
            THEN RR_MIN ELSE fn_in.rr_mins

\* C8: every returned signal has its stop strictly on the loss side and its
\* target strictly on the profit side of the entry price, with
\* stop_distance = ATR * stop multiplier and
\* target_distance = stop_distance * rr.
C8_SignalGeometry ==
    (fn_pc = "done" /\ fn_out.direction # "NONE") =>
        /\ fn_out.direction = "BUY" =>
               (fn_out.sl < fn_out.entry_price
                   /\ fn_out.entry_price < fn_out.tp)
        /\ fn_out.direction = "SELL" =>
               (fn_out.tp < fn_out.entry_price
                   /\ fn_out.entry_price < fn_out.sl)
        /\ fn_out.stop_distance * 10 = fn_in.atr * SignalStopMultiplier
        /\ fn_out.target_distance * 10 = fn_out.stop_distance * SignalRR

(***************************************************************************)
(* The replay loops of back_test.py: _run_simulation_core, opt_test,       *)
(* opt_ind_test                                                            *)
(***************************************************************************)
Runs == {1, 2}

Loops == {"core", "opt_test", "opt_ind_test"}

\* arguments of opt_test used by its pipeline
OptParams ==
    [ext_mult |-> 15, rr_min |-> 30, atr_multiplier |-> 20,
     med_spread |-> 1000, max_spread_mult |-> 15, exp_slippage |-> 2000,
     risk_per_trade |-> 50, max_leverage |-> 50]

\* datetime.utcnow().time() as read by is_in_rollover: noon, or 22:00
ClockReads == {43200, 79200}

\* Bars of mt5.copy_rates_range with the indicator values of the window
\* that ends in them; every bar has ATR 0.00100 and a range of at most
\* 1.5 ATR.
\*   Qs      bar around 1.10000 with a close z-score of +2.5
\*   U       bar gapped up to 1.10150 .. 1.10300, z-score +2.5
\*   D       bar gapped down to 1.09700 .. 1.09850, z-score -2.5
BarKinds == {"Qs", "U", "D"}

Bar(kind, t) ==
    [time |-> t,
     close |-> IF kind = "U" THEN 11025000
               ELSE IF kind = "D" THEN 10975000 ELSE 11000000,
     high |-> IF kind = "U" THEN 11030000
              ELSE IF kind = "D" THEN 10985000 ELSE 11005000,
     low |-> IF kind = "U" THEN 11015000
             ELSE IF kind = "D" THEN 10970000 ELSE 10995000,
     spread |-> 10,
     atr |-> 10000,
     atr_zscore |-> 0,
     adx |-> 20,
     zscore |-> IF kind \in {"Qs", "U"} THEN 250 ELSE -250,
     ema_fast |-> 11000000,
     ema_slow |-> 11000000]

\* time of rates[0]: midnight, or 02:56 so that the blocked hour 3 begins
\* with the third bar
StartTimes == {BT_START_EPOCH, BT_START_EPOCH + 10560}

NoDecision == [open |-> FALSE]

DecisionOf(trade) ==
    IF trade = NoTrade THEN NoDecision
    ELSE [open |-> TRUE, type |-> trade.type, entry_price |-> trade.entry_price,
          sl |-> trade.sl, tp |-> trade.tp, size |-> trade.size]

\* Layer 7: virtual execution
OpenTrade(bar_dict, market_context, signal, lot_size, current_bar_data) ==
    LET direction == signal.direction
        mid_price == bar_dict.close
        ms == _apply_microstructure(bar_dict.spread, FIXED_SLIPPAGE_PIPS,
                                    bar_dict.atr_zscore, bar_dict.timestamp)
        half_spread == ms.spread_price \div 2
        slip_price == (ms.slippage_pips * PIP_SIZE) \div 1000
        entry_exec_price == IF direction = "BUY"
                            THEN mid_price + half_spread + slip_price
                            ELSE mid_price - half_spread - slip_price
    IN  [time |-> current_bar_data.time,
         type |-> direction,
         entry_price |-> entry_exec_price,
         sl |-> signal.sl,
         tp |-> signal.tp,
         size |-> lot_size,
         structure |-> market_context.structure,
         strategy |-> signal.strategy,
         spread |-> ms.spread_price,
         stop_distance |-> signal.stop_distance,
         target_distance |-> signal.target_distance,
         slippage_pips |-> ms.slippage_pips,
         commission_per_lot |-> COMMISSION_PER_LOT,
         be_moved |-> FALSE]

\* The hierarchical veto pipeline of one iteration: the trade it opens, or
\* NoTrade when a layer vetoes.
Pipeline(lp, win, eq, st, now) ==
    LET current_bar_data == win[Len(win)]
        bar_dict == IF lp = "core" THEN data_adapter(win)
                    ELSE opt_data_adapter(win)
        market_context == analyze_regime(bar_dict)
        signal == IF lp = "opt_test"
                  THEN _select_sim_signal_by_bias(bar_dict, market_context,
                           OptParams.rr_min, OptParams.atr_multiplier,
                           OptParams.ext_mult)
                  ELSE _select_signal_by_bias(bar_dict, market_context)
        costs_ok == IF lp = "opt_test"
                    THEN simulate_acceptable(bar_dict.spread,
                             OptParams.med_spread, OptParams.max_spread_mult,
                             OptParams.exp_slippage, now)
                    ELSE is_acceptable(bar_dict.spread, now)
        effective_risk ==
            (OptParams.risk_per_trade * market_context.risk_multiplier) \div 10
        lot_size ==
            IF lp = "opt_test"
            THEN IF effective_risk <= 0 THEN 0
                 ELSE simulate_size(eq, signal.stop_distance, bar_dict.close,
                                    effective_risk, OptParams.max_leverage)
            ELSE _apply_risk_multiplier(
                     calculate_size(eq, signal.stop_distance, bar_dict.close),
                     market_context.risk_multiplier)
    IN  IF ~market_context.trade_allowed THEN NoTrade
        ELSE IF signal = NoSignal THEN NoTrade
        ELSE IF ~psychology_is_allowed(st, bar_dict) THEN NoTrade
        ELSE IF ~session_is_allowed(bar_dict.timestamp) THEN NoTrade
        ELSE IF ~costs_ok THEN NoTrade
        ELSE IF lot_size <= 0 THEN NoTrade
        ELSE OpenTrade(bar_dict, market_context, signal, lot_size,
                       current_bar_data)

\* where the `continue` of the trade-management block stands: opt_test and
\* opt_ind_test have it at the level of `if active_trade:`, the core one
\* level deeper, inside `if exit_data:`
ContinuesWhileInTrade(lp) == lp # "core"

ActiveAfterExit_kept(trade) == trade

\* active_trade = None
ActiveAfterExit(trade) == NoTrade

BalanceAfter_unchanged(eq, net_pnl) == eq

\* equity += net_pnl
BalanceAfter(eq, net_pnl) == eq + net_pnl

\* One iteration of the for loop with loop variable idx on
\* win = rates[idx - WARMUP_PERIOD : idx].
Iterate(lp, idx, win, trade, eq, hist, st, now) ==
    LET current_bar_data == win[Len(win)]
        was_active == trade # NoTrade
        managed == IF was_active
                   THEN _maybe_move_breakeven(trade, current_bar_data)
                   ELSE trade
        exit_data == IF was_active
                     THEN check_exit_conditions(managed, current_bar_data)
                     ELSE NoExit
        exited == exit_data # NoExit
        gross_pnl == exit_data.raw_pnl
        commission_cost == (managed.commission_per_lot * managed.size * 2) \div 100
        net_pnl == NetPnl(gross_pnl, commission_cost,
                          _calc_swap(managed, current_bar_data.time))
        closed == [entry_time |-> managed.time,
                   exit_time |-> current_bar_data.time,
                   result |-> exit_data.result,
                   pnl |-> net_pnl,
                   balance |-> BalanceAfter(eq, net_pnl),
                   return_pct |-> <<net_pnl, eq>>,
                   type |-> managed.type,
                   structure |-> managed.structure,
                   strategy |-> managed.strategy,
                   spread |-> managed.spread,
                   stop_distance |-> managed.stop_distance,
                   target_distance |-> managed.target_distance]
        runs_pipeline == IF was_active
                         THEN ~exited /\ ~ContinuesWhileInTrade(lp)
                         ELSE TRUE
        opened == IF runs_pipeline THEN Pipeline(lp, win, eq, st, now)
                  ELSE NoTrade
    IN  [active_trade |-> IF exited THEN ActiveAfterExit(managed)
                          ELSE IF opened # NoTrade THEN opened
                          ELSE managed,
         equity |-> IF exited THEN BalanceAfter(eq, net_pnl) ELSE eq,
         trade_history |-> IF exited THEN Append(hist, closed) ELSE hist,
         bt_state |-> IF exited THEN [st EXCEPT !.last_trade_bar = idx]
                      ELSE st,
         last |-> [step |-> idx,
                   was_active |-> was_active,
                   exited |-> exited,
                   pipeline_ran |-> runs_pipeline,
                   opened |-> opened # NoTrade,
                   decision |-> DecisionOf(opened)]]

\* TradingState(trading_day=...)
FreshState ==
    [trades_today |-> 0, last_trade_bar |-> 0, risk_throttle |-> FALSE,
     trading_disabled |-> FALSE]

\* rates[0 : WARMUP_PERIOD] of a run starting at t0
FirstWindows(t0) ==
    {[k \in 1..WARMUP_PERIOD |-> Bar(kinds[k], t0 + (k - 1) * BAR_SECONDS)] :
        kinds \in [1..WARMUP_PERIOD -> BarKinds]}

\* State at the head of the for loop, i = WARMUP_PERIOD
Init ==
    /\ FnIdle
    /\ loop \in Loops
    /\ twin \in {"clock", "bars"}
    /\ pc = "loop"
    /\ i = WARMUP_PERIOD
    /\ \E t0 \in StartTimes : \E w \in FirstWindows(t0) :
           window = [r \in Runs |-> w]
    /\ equity = [r \in Runs |-> BT_INITIAL_BALANCE]
    /\ active_trade = [r \in Runs |-> NoTrade]
    /\ trade_history = [r \in Runs |-> <<>>]
    /\ bt_state = [r \in Runs |-> FreshState]
    /\ last = [r \in Runs |-> [step |-> 0, was_active |-> FALSE,
                               exited |-> FALSE, pipeline_ran |-> FALSE,
                               opened |-> FALSE, decision |-> NoDecision]]
    /\ diff_at = -1

\* What the second run may see differently.  twin = "clock": the same bars,
\* any clock readings.  twin = "bars": the same clock readings, and rates
\* that differ from the first run's in at most one bar.
TwinInputs(now, kind) ==
    /\ twin = "clock" => kind[1] = kind[2]
    /\ twin = "bars" => now[1] = now[2]
    /\ (twin = "bars" /\ diff_at # -1) => kind[1] = kind[2]

\* Both runs execute iteration i and move on to rates[i + 1 - WARMUP_PERIOD :
\* i + 1]; rates[i] is the bar that slides into the window.
Step ==
    /\ pc = "loop"
    /\ i < MaxBars
    /\ \E now \in [Runs -> ClockReads], kind \in [Runs -> BarKinds] :
        /\ TwinInputs(now, kind)
        /\ LET out == [r \in Runs |->
                          Iterate(loop, i, window[r], active_trade[r],
                                  equity[r], trade_history[r], bt_state[r],
                                  now[r])]
               t == window[1][WARMUP_PERIOD].time + BAR_SECONDS
           IN  /\ active_trade' = [r \in Runs |-> out[r].active_trade]
               /\ equity' = [r \in Runs |-> out[r].equity]
               /\ trade_history' = [r \in Runs |-> out[r].trade_history]
               /\ bt_state' = [r \in Runs |-> out[r].bt_state]
               /\ last' = [r \in Runs |-> out[r].last]
               /\ window' = [r \in Runs |->
                                Append(Tail(window[r]), Bar(kind[r], t))]
               /\ diff_at' = IF kind[1] # kind[2] THEN i ELSE diff_at
    /\ i' = i + 1
    /\ UNCHANGED <<fnvars, loop, twin, pc>>

\* The for loop is exhausted: len(rates) = i
Finish ==
    /\ pc = "loop"
    /\ pc' = "done"
    /\ UNCHANGED <<fnvars, loop, twin, i, window, equity, active_trade,
                   trade_history, bt_state, last, diff_at>>

\* Iteration idx gets as far as the cost gate's call: the pipeline runs and
\* regime, signal, psychology and session have not vetoed.
ReachesCostGate(lp, win, trade, st) ==
    LET current_bar_data == win[Len(win)]
        was_active == trade # NoTrade
        managed == IF was_active
                   THEN _maybe_move_breakeven(trade, current_bar_data)
                   ELSE trade
        exited == was_active
                  /\ check_exit_conditions(managed, current_bar_data) # NoExit
        runs_pipeline == IF was_active
                         THEN ~exited /\ ~ContinuesWhileInTrade(lp)
                         ELSE TRUE
        bar_dict == IF lp = "core" THEN data_adapter(win)
                    ELSE opt_data_adapter(win)
        market_context == analyze_regime(bar_dict)
        signal == IF lp = "opt_test"
                  THEN _select_sim_signal_by_bias(bar_dict, market_context,
                           OptParams.rr_min, OptParams.atr_multiplier,
                           OptParams.ext_mult)
                  ELSE _select_signal_by_bias(bar_dict, market_context)
    IN  /\ runs_pipeline
        /\ market_context.trade_allowed
        /\ signal # NoSignal
        /\ psychology_is_allowed(st, bar_dict)
        /\ session_is_allowed(bar_dict.timestamp)

\* The cost gate's call raises.  The loops pass the bar's timestamp as one
\* positional argument more than costs.is_acceptable and
\* costs.simulate_acceptable declare, which Python answers with a TypeError
\* at the call; no statement of back_test.py catches an exception, so it
\* leaves the for loop and the replay function without a report.
GateRaises ==
    /\ pc = "loop"
    /\ i < MaxBars
    /\ \E r \in Runs :
           ReachesCostGate(loop, window[r], active_trade[r], bt_state[r])
    /\ pc' = "raised"
    /\ UNCHANGED <<fnvars, loop, twin, i, window, equity, active_trade,
                   trade_history, bt_state, last, diff_at>>

Next == Step \/ Finish \/ GateRaises

Spec == Init /\ [][Next]_vars

(***************************************************************************)
(* Properties of the replay                                                *)
(***************************************************************************)
\* the half-open intervals [entry_time, exit_time) of two records meet
Overlap(a, b) == a.entry_time < b.exit_time /\ b.entry_time < a.exit_time

\* C1: in each of the three loops, after any prefix of the bars, no two
\* records of trade_history have overlapping [entry_time, exit_time)
\* intervals, and the one active trade, if any, starts no earlier than the
\* last recorded exit.
C1_SinglePosition ==
    pc \in {"loop", "done"} =>
        \A r \in Runs :
            LET hist == trade_history[r]
            IN  /\ \A k, l \in 1..Len(hist) :
                       k # l => ~Overlap(hist[k], hist[l])
                /\ \A k \in 1..Len(hist) :
                       /\ hist[k].entry_time < hist[k].exit_time
                       /\ active_trade[r] # NoTrade =>
                              hist[k].exit_time <= active_trade[r].time

\* two trades were opened and closed one after the other
C1_Witness ==
    /\ Len(trade_history[1]) = 2
    /\ trade_history[1][1].exit_time <= trade_history[1][2].entry_time

EntryShapes == {"normal", "extended", "high_below_close", "high_below_low"}

\* a bar of rates[] with the indicator values of the window that ends in it
EntryBar(shape, t, z, atr_z, adx_v, raw_spread) ==
    [time |-> t,
     open |-> 11000000,
     close |-> 11000000,
     high |-> IF shape = "normal" THEN 11005000
              ELSE IF shape = "extended" THEN 11010000
              ELSE IF shape = "high_below_close" THEN 10999000
              ELSE 10990000,
     low |-> IF shape = "extended" THEN 10990000 ELSE 10995000,
     spread |-> raw_spread, atr |-> 10000, atr_zscore |-> atr_z,
     adx |-> adx_v, zscore |-> z,
     ema_fast |-> 11000000, ema_slow |-> 11000000]

EntryBars ==
    {EntryBar(sh, t, z, az, ad, sp) :
        sh \in EntryShapes, t \in StartTimes, z \in {0, 250, -250},
        az \in {-150, 0, 150}, ad \in {20, 30}, sp \in {10, 20}}

EntryStates ==
    [trades_today : {0, MAX_TRADES_PER_DAY}, last_trade_bar : {0},
     risk_throttle : BOOLEAN, trading_disabled : BOOLEAN]

EntryInputs ==
    [loop : Loops, target : EntryBars,
     equity : {BT_INITIAL_BALANCE, 200000, 0},
     state : EntryStates, now : ClockReads]

\* rates[i - WARMUP_PERIOD : i] with the drawn bar as window[-2]
EntryWindow(x) ==
    [k \in 1..WARMUP_PERIOD |->
        IF k = WARMUP_PERIOD
        THEN Bar("Qs", x.target.time + BAR_SECONDS)
        ELSE x.target]

EntryInit ==
    /\ ReplayIdle
    /\ fn_pc = "flat"
    /\ fn_in \in EntryInputs
    /\ fn_out = NoTrade

\* the loop body with active_trade = None
DecideBar ==
    /\ fn_pc = "flat"
    /\ fn_pc' = "decided"
    /\ fn_out' = Iterate(fn_in.loop, WARMUP_PERIOD, EntryWindow(fn_in),
                         NoTrade, fn_in.equity, <<>>, fn_in.state, fn_in.now)
    /\ UNCHANGED <<fn_in, replayvars>>

\* high and low of the bar that follows the entry: quiet, a spike through
\* the stop of a SELL, a spike through the stop of a BUY, or both
FollowingBar(kind, t) ==
    [time |-> t, open |-> 11000000, close |-> 11000000,
     high |-> IF kind \in {"up_spike", "both_spike"} THEN 11025000
              ELSE IF kind = "quiet" THEN 11005000 ELSE 11000000,
     low |-> IF kind \in {"down_spike", "both_spike"} THEN 10975000
             ELSE IF kind = "quiet" THEN 10995000 ELSE 11000000,
     spread |-> 10, atr |-> 10000, atr_zscore |-> 0, adx |-> 20,
     zscore |-> 0, ema_fast |-> 11000000, ema_slow |-> 11000000]

\* rates[i + 1 - WARMUP_PERIOD : i + 1] of the iteration after the entry
FollowingWindow(x, kind) ==
    [k \in 1..WARMUP_PERIOD |->
        IF k = WARMUP_PERIOD
        THEN FollowingBar(kind, x.target.time + 2 * BAR_SECONDS)
        ELSE IF k = WARMUP_PERIOD - 1
        THEN Bar("Qs", x.target.time + BAR_SECONDS)
        ELSE x.target]

\* the next iteration of the loop, entered with the trade just opened
ManageOpened ==
    /\ fn_pc = "decided"
    /\ fn_out.active_trade # NoTrade
    /\ fn_pc' = "managed"
    /\ \E kind \in {"quiet", "up_spike", "down_spike", "both_spike"} :
        LET win == FollowingWindow(fn_in, kind)
        IN  fn_out' =
                [decided |-> fn_out,
                 current_bar_data |-> win[WARMUP_PERIOD],
                 after |-> Iterate(fn_in.loop, WARMUP_PERIOD + 1, win,
                                   fn_out.active_trade, fn_out.equity,
                                   fn_out.trade_history, fn_out.bt_state,
                                   fn_in.now)]
    /\ UNCHANGED <<fn_in, replayvars>>

EntryNext == DecideBar \/ ManageOpened

SpecEntry == EntryInit /\ [][EntryNext]_vars

EntryOpened == fn_pc = "decided" /\ fn_out.active_trade # NoTrade

\* C12: a flat replay enters a trade at a step only if the regime allows
\* trading, the selected signal is non-null and its candle is not extended,
\* the behavioural gate passes with neither risk_throttle nor
\* trading_disabled set, the cost filter passes and the final size is > 0.
C12_FailClosedEntry ==
    EntryOpened =>
        LET bar_dict == data_adapter(EntryWindow(fn_in))
            market_context == analyze_regime(bar_dict)
            signal == IF fn_in.loop = "opt_test"
                      THEN _select_sim_signal_by_bias(bar_dict, market_context,
                               OptParams.rr_min, OptParams.atr_multiplier,
                               OptParams.ext_mult)
                      ELSE _select_signal_by_bias(bar_dict, market_context)
        IN  /\ market_context.trade_allowed
            /\ signal # NoSignal
            /\ 10 * bar_dict.range <= bar_dict.atr * EXTENDED_MULTIPLIER
            /\ psychology_is_allowed(fn_in.state, bar_dict)
            /\ ~fn_in.state.risk_throttle
            /\ ~fn_in.state.trading_disabled
            /\ fn_in.state.trades_today < MAX_TRADES_PER_DAY
            /\ session_is_allowed(bar_dict.timestamp)
            /\ IF fn_in.loop = "opt_test"
               THEN simulate_acceptable(bar_dict.spread, OptParams.med_spread,
                        OptParams.max_spread_mult, OptParams.exp_slippage,
                        fn_in.now)
               ELSE is_acceptable(bar_dict.spread, fn_in.now)
            /\ fn_out.active_trade.size > 0
            /\ fn_in.equity > 0

\* a trade is opened with every gate open
C12_Witness ==
    /\ EntryOpened
    /\ fn_out.last.opened
    /\ fn_out.active_trade.size > 0

\* ---------------------------------------------------------------------
\* Properties of the bookkeeping at a close

RECURSIVE SumPnl(_)
SumPnl(hist) == IF hist = <<>> THEN 0 ELSE hist[1].pnl + SumPnl(Tail(hist))

\* the record a step of run r appends, seen from the step's two states
BooksTrade(r) == Len(trade_history'[r]) > Len(trade_history[r])

C13_CloseStep(r) ==
    LET n == Len(trade_history'[r])
        rec == trade_history'[r][n]
        current_bar_data == window[r][WARMUP_PERIOD]
        managed == _maybe_move_breakeven(active_trade[r], current_bar_data)
        exit_data == check_exit_conditions(managed, current_bar_data)
        commission_cost == (managed.commission_per_lot * managed.size * 2) \div 100
        swap_cost == _calc_swap(managed, current_bar_data.time)
        previous == IF n = 1 THEN BT_INITIAL_BALANCE
                    ELSE trade_history[r][n - 1].balance
    IN  /\ rec.pnl = exit_data.raw_pnl - commission_cost - swap_cost
        /\ rec.balance = previous + rec.pnl
        /\ equity[r] = previous
        /\ equity'[r] = BT_INITIAL_BALANCE + SumPnl(trade_history'[r])
        /\ rec.return_pct = <<rec.pnl, previous>>
        /\ previous > 0

\* C13: at every close net pnl = gross pnl - commission - swap, the record's
\* balance is the previous balance (initially the starting balance) plus that
\* pnl, running equity is the starting balance plus the sum of the recorded
\* pnl, and return_pct is pnl over the pre-trade balance, which is > 0.
C13_EquityAccounting ==
    [][\A r \in Runs : BooksTrade(r) => C13_CloseStep(r)]_vars

\* two closes booked, a loss among them
C13_Witness ==
    /\ Len(trade_history[1]) = 2
    /\ \E k \in 1..2 : trade_history[1][k].pnl < 0
    /\ equity[1] = BT_INITIAL_BALANCE + SumPnl(trade_history[1])

\* ---------------------------------------------------------------------
\* state.py: the TradingState file.  A JSON value is a tagged integer
\* (t = "int", "bool" with v in {0, 1}, or "str" with v naming a string,
\* 0 the empty one); a file is missing, text that json.load rejects, or a
\* JSON document; a TradingState is a mapping of its eight fields.

MaxTradesCounted == 2

IntV(n) == [t |-> "int", v |-> n]

BoolV(b) == [t |-> "bool", v |-> IF b THEN 1 ELSE 0]

StrV(k) == [t |-> "str", v |-> k]

FieldNames ==
    {"trading_day", "trades_today", "last_trade_bar", "risk_throttle",
     "trading_disabled", "consecutive_losses", "execution_failures",
     "last_update_ts"}

\* the annotation of each dataclass field
FieldType(f) ==
    IF f \in {"trading_day", "last_update_ts"} THEN "str"
    ELSE IF f \in {"risk_throttle", "trading_disabled"} THEN "bool"
    ELSE "int"

\* TradingState()
DefaultTradingState ==
    [trading_day |-> StrV(0), trades_today |-> IntV(0),
     last_trade_bar |-> IntV(0), risk_throttle |-> BoolV(FALSE),
     trading_disabled |-> BoolV(FALSE), consecutive_losses |-> IntV(0),
     execution_failures |-> IntV(0), last_update_ts |-> StrV(0)]

NoFile == [kind |-> "missing"]

\* text json.load raises on: empty, truncated or otherwise malformed
BrokenText == [kind |-> "text"]

\* a JSON document that is not an object (a list, a number, null)
JsonNonObject == [kind |-> "json", obj |-> FALSE]

JsonObject(members) == [kind |-> "json", obj |-> TRUE, members |-> members]

\* TradingState(**data): the keywords must name fields, absent fields take
\* their defaults, and no value is checked against its annotation
TradingStateFrom(members) ==
    [f \in FieldNames |->
        IF f \in DOMAIN members THEN members[f] ELSE DefaultTradingState[f]]

load(file) ==
    IF file = NoFile THEN DefaultTradingState
    ELSE IF file = BrokenText THEN DefaultTradingState
    ELSE IF ~file.obj THEN DefaultTradingState
    ELSE IF ~(DOMAIN file.members \subseteq FieldNames)
         THEN DefaultTradingState
    ELSE TradingStateFrom(file.members)

\* json.dump(asdict(self.state)) read back as text
asdict(state) == JsonObject(state)

SavedState ==
    [DefaultTradingState EXCEPT !.trading_day = StrV(1),
                                !.trades_today = IntV(2),
                                !.trading_disabled = BoolV(TRUE),
                                !.last_update_ts = StrV(1)]

\* what may be found at file_path when the manager is constructed
InitialFiles ==
    {NoFile, BrokenText, JsonNonObject,
     JsonObject(SavedState),
     JsonObject(DefaultTradingState),
     JsonObject([trades_today |-> IntV(2)]),
     JsonObject([trades_today |-> IntV(2), extra |-> IntV(1)]),
     JsonObject([SavedState EXCEPT !.trades_today = StrV(2)]),
     JsonObject([SavedState EXCEPT !.trading_disabled = IntV(7)])}

TempTarget_in_place == "file"

\* tempfile.NamedTemporaryFile('w', dir=dir_name, delete=False)
TempTarget == "tmp"

\* the disk and the process: fn_out.file is the file at file_path,
\* fn_out.tmp the temporary file, fn_out.mem the manager's state;
\* fn_in.prev is the file as the running save() found it and fn_in.data the
\* document it writes
StateInit ==
    /\ ReplayIdle
    /\ fn_pc = "start"
    /\ \E f \in InitialFiles :
        /\ fn_out = [file |-> f, tmp |-> NoFile, mem |-> DefaultTradingState]
        /\ fn_in = [prev |-> f, data |-> f]

\* StateManager.__init__: self.state = self.load()
Load ==
    /\ fn_pc = "start"
    /\ fn_pc' = "loaded"
    /\ fn_out' = [fn_out EXCEPT !.mem = load(fn_out.file)]
    /\ UNCHANGED <<fn_in, replayvars>>

\* the caller changes the state between saves
Mutate ==
    /\ fn_pc \in {"loaded", "idle"}
    /\ fn_pc' = "idle"
    /\ \E n \in 0..MaxTradesCounted, d \in BOOLEAN :
        fn_out' = [fn_out EXCEPT !.mem.trades_today = IntV(n),
                                 !.mem.trading_disabled = BoolV(d)]
    /\ UNCHANGED <<fn_in, replayvars>>

\* save() up to the creation of the (still empty) temporary file
SaveBegin ==
    /\ fn_pc = "idle"
    /\ fn_pc' = "dumping"
    /\ \E now \in {1, 2} :
        LET state == [fn_out.mem EXCEPT !.last_update_ts = StrV(now)]
        IN  /\ fn_in' = [prev |-> fn_out.file, data |-> asdict(state)]
            /\ fn_out' = [[fn_out EXCEPT !.mem = state]
                              EXCEPT ![TempTarget] = BrokenText]
    /\ UNCHANGED replayvars

\* json.dump(data, tf, indent=4) has written the whole document
SaveDump ==
    /\ fn_pc = "dumping"
    /\ fn_pc' = "dumped"
    /\ fn_out' = [fn_out EXCEPT ![TempTarget] = fn_in.data]
    /\ UNCHANGED <<fn_in, replayvars>>

\* tf.flush(); os.fsync(tf.fileno())
SaveFsync ==
    /\ fn_pc = "dumped"
    /\ fn_pc' = "synced"
    /\ UNCHANGED <<fn_in, fn_out, replayvars>>

\* os.replace(temp_name, self.file_path)
SaveReplace ==
    /\ fn_pc = "synced"
    /\ fn_pc' = "idle"
    /\ fn_out' = [[fn_out EXCEPT !.file = fn_out[TempTarget]]
                      EXCEPT !.tmp = NoFile]
    /\ UNCHANGED <<fn_in, replayvars>>

\* the process dies anywhere; what was written and not yet synced may or
\* may not have reached the disk; the next process starts with load()
Crash ==
    /\ fn_pc \in {"idle", "dumping", "dumped", "synced"}
    /\ fn_pc' = "start"
    /\ \E kept \in BOOLEAN :
        fn_out' = [[fn_out EXCEPT !.mem = DefaultTradingState]
                       EXCEPT ![TempTarget] =
                           IF kept \/ fn_pc \notin {"dumping", "dumped"}
                           THEN fn_out[TempTarget] ELSE BrokenText]
    /\ UNCHANGED <<fn_in, replayvars>>

StateNext ==
    \/ Load
    \/ Mutate
    \/ SaveBegin
    \/ SaveDump
    \/ SaveFsync
    \/ SaveReplace
    \/ Crash

SpecState == StateInit /\ [][StateNext]_vars

\* C14: whatever point save() is interrupted at, the file at file_path is
\* the complete file save() found or the complete new document, and the
\* load() after the crash returns the state of one of the two.
C14_AtomicSave ==
    /\ fn_out.file \in {fn_in.prev, fn_in.data}
    /\ fn_pc = "loaded" => fn_out.mem \in {load(fn_in.prev), load(fn_in.data)}
    /\ fn_in.prev # BrokenText => fn_out.file # BrokenText

\* a crash between the dump and the replace, then a load of the old state
C14_Witness ==
    /\ fn_pc = "loaded"
    /\ fn_out.tmp # NoFile
    /\ fn_in.prev # fn_in.data
    /\ fn_in.prev = JsonObject([SavedState EXCEPT !.last_update_ts = StrV(2)])
    /\ fn_out.file = fn_in.prev
    /\ fn_out.mem = load(fn_in.prev)

\* a document whose members are exactly the fields, each of its annotated type
FitsTradingState(file) ==
    /\ file # NoFile
    /\ file # BrokenText
    /\ file.obj
    /\ DOMAIN file.members = FieldNames
    /\ \A f \in FieldNames : file.members[f].t = FieldType(f)

\* a missing file, text that is not JSON, or a document with a member that
\* is no field or a value that is not of the field's type
UnfitForTradingState(file) ==
    \/ file = NoFile
    \/ file = BrokenText
    \/ ~file.obj
    \/ ~(DOMAIN file.members \subseteq FieldNames)
    \/ \E f \in DOMAIN file.members \cap FieldNames :
           file.members[f].t # FieldType(f)

\* C15: load() returns the default TradingState when the file is missing,
\* is not valid JSON or holds fields that do not fit TradingState, and
\* exactly the saved state when the file holds a complete saved state.
C15_ParseOrDefault ==
    fn_pc = "loaded" =>
        /\ UnfitForTradingState(fn_out.file) => fn_out.mem = DefaultTradingState
        /\ FitsTradingState(fn_out.file) => fn_out.mem = fn_out.file.members

\* the parts of C15 the code does keep: the unreadable files give the
\* default, a complete record is returned as saved
C15_HeldPart ==
    fn_pc = "loaded" =>
        /\ (fn_out.file \in {NoFile, BrokenText, JsonNonObject}
               => fn_out.mem = DefaultTradingState)
        /\ FitsTradingState(fn_out.file) => fn_out.mem = fn_out.file.members

\* ---------------------------------------------------------------------
\* C16: a fault raised while a bar is decided is treated as a veto for that
\* bar and the replay goes on with the next bar; no fault ends the replay.
C16_FaultIsolation == pc # "raised"

\* ---------------------------------------------------------------------
\* data.py: the OHLC check of the input layer
validate_bar_integrity(bar) ==
    IF ~(bar.high >= bar.low) THEN FALSE
    ELSE IF ~(bar.high >= bar.open /\ bar.high >= bar.close) THEN FALSE
    ELSE IF ~(bar.low <= bar.open /\ bar.low <= bar.close) THEN FALSE
    ELSE TRUE

MaxStreak == 7

MaxDays == 2

\* TradingState() as the monitoring calls see it
DefaultMonitored ==
    [trading_day |-> 0, trades_today |-> 0, last_trade_bar |-> 0,
     risk_throttle |-> FALSE, trading_disabled |-> FALSE,
     consecutive_losses |-> 0, execution_failures |-> 0]

update_statistics_stale(trade_won, state_obj) ==
    LET counted == [state_obj EXCEPT !.consecutive_losses =
                        IF trade_won THEN 0 ELSE @ + 1]
    IN  IF state_obj.consecutive_losses >= 5
        THEN [counted EXCEPT !.trading_disabled = TRUE]
        ELSE counted

update_statistics(trade_won, state_obj) ==
    LET counted == [state_obj EXCEPT !.consecutive_losses =
                        IF trade_won THEN 0 ELSE @ + 1]
    IN  IF counted.consecutive_losses >= 5
        THEN [counted EXCEPT !.trading_disabled = TRUE]
        ELSE counted

log_execution_failure_late(state_obj) ==
    LET counted == [state_obj EXCEPT !.execution_failures = @ + 1]
    IN  IF counted.execution_failures > 3
        THEN [counted EXCEPT !.trading_disabled = TRUE]
        ELSE counted

log_execution_failure(state_obj) ==
    LET counted == [state_obj EXCEPT !.execution_failures = @ + 1]
    IN  IF counted.execution_failures >= 3
        THEN [counted EXCEPT !.trading_disabled = TRUE]
        ELSE counted

\* the state part of reset_if_new_day; today is the clock's UTC date
reset_if_new_day(state_obj, today) ==
    IF state_obj.trading_day # today
    THEN [state_obj EXCEPT !.trading_day = today,
                           !.trades_today = 0,
                           !.consecutive_losses = 0,
                           !.execution_failures = 0,
                           !.last_trade_bar = 0]
    ELSE state_obj

MonitorInit ==
    /\ ReplayIdle
    /\ fn_pc = "monitoring"
    /\ fn_in = [call |-> "none", trade_won |-> FALSE]
    /\ fn_out = DefaultMonitored

CallUpdateStatistics ==
    /\ fn_pc = "monitoring"
    /\ fn_out.consecutive_losses < MaxStreak
    /\ \E trade_won \in BOOLEAN :
        /\ fn_in' = [call |-> "update_statistics", trade_won |-> trade_won]
        /\ fn_out' = update_statistics(trade_won, fn_out)
    /\ UNCHANGED <<fn_pc, replayvars>>

CallLogExecutionFailure ==
    /\ fn_pc = "monitoring"
    /\ fn_out.execution_failures < MaxStreak
    /\ fn_in' = [call |-> "log_execution_failure", trade_won |-> FALSE]
    /\ fn_out' = log_execution_failure(fn_out)
    /\ UNCHANGED <<fn_pc, replayvars>>

CallResetIfNewDay ==
    /\ fn_pc = "monitoring"
    /\ \E today \in 1..MaxDays :
        fn_out' = reset_if_new_day(fn_out, today)
    /\ fn_in' = [call |-> "reset_if_new_day", trade_won |-> FALSE]
    /\ UNCHANGED <<fn_pc, replayvars>>

MonitorNext ==
    \/ CallUpdateStatistics
    \/ CallLogExecutionFailure
    \/ CallResetIfNewDay

SpecMonitor == MonitorInit /\ [][MonitorNext]_vars

\* C18: after any sequence of the three calls from the default state,
\* consecutive_losses >= 5 implies trading_disabled, execution_failures >= 3
\* implies trading_disabled, and a winning trade leaves consecutive_losses
\* at 0.
C18_KillSwitch ==
    /\ fn_out.consecutive_losses >= 5 => fn_out.trading_disabled
    /\ fn_out.execution_failures >= 3 => fn_out.trading_disabled
    /\ (fn_in.call = "update_statistics" /\ fn_in.trade_won)
           => fn_out.consecutive_losses = 0

\* the loss streak reaches 5 on a day the failure count is below 3
C18_Witness ==
    /\ fn_out.consecutive_losses = 5
    /\ fn_out.execution_failures < 3
    /\ fn_out.trading_disabled
    /\ fn_in.call = "update_statistics"

\* ---------------------------------------------------------------------
\* monte_carlo.py.  Balances are in cents, returns in hundredths, a
\* drawdown (already multiplied by 100.0) in 1e-2 percent, and a percentile
\* is carried multiplied by 100 so that the interpolation stays integral.
\* random.choice under an arbitrary seed is a free choice of index.

MaxReturns == 2

McIterations == 3

ReturnValues == {-50, -10, 20}

\* the lists of return_pct a replay with trades may hand over
ReturnLists == UNION {[1..n -> ReturnValues] : n \in 1..MaxReturns}

McInitialBalance == BT_INITIAL_BALANCE \div 100

RECURSIVE PeakOf(_, _)
\* the running peak after the first k values of the curve
PeakOf(equity_curve, k) ==
    IF k = 1 THEN equity_curve[1]
    ELSE Max(PeakOf(equity_curve, k - 1), equity_curve[k])

RECURSIVE MddUpTo(_, _)
\* mdd after the first k passes of the loop of _max_drawdown
MddUpTo(equity_curve, k) ==
    IF k = 0 THEN 0
    ELSE LET peak == PeakOf(equity_curve, k)
             dd == ((equity_curve[k] - peak) * 10000) \div peak
             mdd == MddUpTo(equity_curve, k - 1)
         IN  IF dd < mdd THEN dd ELSE mdd

_max_drawdown(equity_curve) == MddUpTo(equity_curve, Len(equity_curve))

RECURSIVE ResampledCurve(_, _, _)
\* curve after k passes of the inner loop, picks[j] the index random.choice
\* drew on pass j
ResampledCurve(returns, picks, k) ==
    IF k = 0 THEN <<McInitialBalance>>
    ELSE LET curve == ResampledCurve(returns, picks, k - 1)
             r == returns[picks[k]]
         IN  Append(curve, (curve[k] * (100 + r)) \div 100)

RECURSIVE InsertSorted(_, _)
InsertSorted(sorted, x) ==
    IF sorted = <<>> THEN <<x>>
    ELSE IF x <= sorted[1] THEN <<x>> \o sorted
    ELSE <<sorted[1]>> \o InsertSorted(Tail(sorted), x)

RECURSIVE SortAscending(_)
SortAscending(a) ==
    IF a = <<>> THEN <<>>
    ELSE InsertSorted(SortAscending(Tail(a)), a[1])

\* 100 times the value at fractional position q / 100 * (n - 1) of a,
\* linearly interpolated between the neighbours
InterpolateAt(a, q) ==
    LET pos == q * (Len(a) - 1)
        lo == pos \div 100
        frac == pos % 100
    IN  IF frac = 0 THEN 100 * a[lo + 1]
        ELSE 100 * a[lo + 1] + frac * (a[lo + 2] - a[lo + 1])

Percentile_unsorted(a, q) == InterpolateAt(a, q)

\* np.percentile(a, q)
Percentile(a, q) == InterpolateAt(SortAscending(a), q)

McInit ==
    /\ ReplayIdle
    /\ fn_pc = "resampling"
    /\ fn_in \in ReturnLists
    /\ fn_out = [final_balances |-> <<>>, mdds |-> <<>>, curve |-> <<>>,
                 balance_percentiles |-> <<>>, mdd_percentiles |-> <<>>]

\* one pass of the outer loop
McIteration ==
    /\ fn_pc = "resampling"
    /\ Len(fn_out.final_balances) < McIterations
    /\ \E picks \in [1..Len(fn_in) -> 1..Len(fn_in)] :
        LET curve == ResampledCurve(fn_in, picks, Len(fn_in))
        IN  fn_out' = [fn_out EXCEPT
                !.final_balances = Append(@, curve[Len(curve)]),
                !.mdds = Append(@, _max_drawdown(curve)),
                !.curve = curve]
    /\ UNCHANGED <<fn_pc, fn_in, replayvars>>

\* the two np.percentile calls after the loop
McReport ==
    /\ fn_pc = "resampling"
    /\ Len(fn_out.final_balances) = McIterations
    /\ fn_pc' = "reported"
    /\ fn_out' = [fn_out EXCEPT
            !.balance_percentiles =
                <<Percentile(fn_out.final_balances, 5),
                  Percentile(fn_out.final_balances, 50),
                  Percentile(fn_out.final_balances, 95)>>,
            !.mdd_percentiles =
                <<Percentile(fn_out.mdds, 5), Percentile(fn_out.mdds, 50),
                  Percentile(fn_out.mdds, 95)>>]
    /\ UNCHANGED <<fn_in, replayvars>>

McNext == McIteration \/ McReport

SpecMonteCarlo == McInit /\ [][McNext]_vars

\* C19: for a non-empty list of returns and any random stream, p5 <= p50 <=
\* p95 for the final balances and for the max drawdowns, every curve has
\* len(returns) steps after the initial balance, and every max drawdown
\* is <= 0.
C19_MonteCarloOrdering ==
    /\ fn_pc = "reported" =>
          /\ fn_out.balance_percentiles[1] <= fn_out.balance_percentiles[2]
          /\ fn_out.balance_percentiles[2] <= fn_out.balance_percentiles[3]
          /\ fn_out.mdd_percentiles[1] <= fn_out.mdd_percentiles[2]
          /\ fn_out.mdd_percentiles[2] <= fn_out.mdd_percentiles[3]
    /\ fn_out.curve # <<>> =>
          /\ Len(fn_out.curve) = Len(fn_in) + 1
          /\ fn_out.curve[1] = McInitialBalance
    /\ \A k \in 1..Len(fn_out.mdds) : fn_out.mdds[k] <= 0

\* a report over curves that differ, drawn in descending order, with a
\* drawdown among them
C19_Witness ==
    /\ fn_pc = "reported"
    /\ fn_out.final_balances[1] > fn_out.final_balances[2]
    /\ fn_out.final_balances[2] > fn_out.final_balances[3]
    /\ fn_out.balance_percentiles[1] < fn_out.balance_percentiles[3]
    /\ \E k \in 1..McIterations : fn_out.mdds[k] < 0

\* ---------------------------------------------------------------------
\* the stop or target condition of run r's open trade on the bar its step
\* manages, the stop being the one in force after the break-even rule
StopOrTargetHolds(r) ==
    LET current_bar_data == window[r][WARMUP_PERIOD]
        managed == _maybe_move_breakeven(active_trade[r], current_bar_data)
    IN  /\ active_trade[r] # NoTrade
        /\ IF managed.type = "BUY"
           THEN \/ current_bar_data.low <= managed.sl
                \/ current_bar_data.high >= managed.tp
           ELSE \/ current_bar_data.high >= managed.sl
                \/ current_bar_data.low <= managed.tp

MaxManagedBars == 4

\* trades as the entry block builds them around a mid price of 1.10000,
\* with and without a stop_distance to fall back from
BreakevenTrades ==
    {[type |-> d, entry_price |-> e,
      sl |-> IF d = "BUY" THEN e - 15000 ELSE e + 15000,
      tp |-> IF d = "BUY" THEN e + 30000 ELSE e - 30000,
      stop_distance |-> sd, be_moved |-> FALSE] :
        d \in {"BUY", "SELL"}, e \in {11000000, 11000700},
        sd \in {0, 15000}}

\* high and low of the bars the trade lives through
BreakevenBars ==
    {[high |-> 11005000, low |-> 10995000],
     [high |-> 11014999, low |-> 10985001],
     [high |-> 11015000, low |-> 11005000],
     [high |-> 11015700, low |-> 11005000],
     [high |-> 10995000, low |-> 10985000],
     [high |-> 10995000, low |-> 10985700],
     [high |-> 11020000, low |-> 10980000]}

BreakevenInit ==
    /\ ReplayIdle
    /\ fn_pc = "in_trade"
    /\ fn_in \in BreakevenTrades
    /\ fn_out = [trade |-> fn_in, bar |-> [high |-> 0, low |-> 0],
                 prev |-> fn_in, changes |-> 0, bars |-> 0]

\* the first statement of the trade-management block on the next bar
ManageBar ==
    /\ fn_pc = "in_trade"
    /\ fn_out.bars < MaxManagedBars
    /\ \E current_bar \in BreakevenBars :
        LET managed == _maybe_move_breakeven(fn_out.trade, current_bar)
        IN  fn_out' = [trade |-> managed, bar |-> current_bar,
                       prev |-> fn_out.trade,
                       changes |-> fn_out.changes
                           + (IF managed.sl # fn_out.trade.sl THEN 1 ELSE 0),
                       bars |-> fn_out.bars + 1]
    /\ UNCHANGED <<fn_pc, fn_in, replayvars>>

BreakevenNext == ManageBar

SpecBreakeven == BreakevenInit /\ [][BreakevenNext]_vars

\* stop_distance * BE_TRIGGER_R_MULT of the trade as opened
BreakevenTrigger ==
    LET stop_distance == IF fn_in.stop_distance # 0 THEN fn_in.stop_distance
                         ELSE Abs(fn_in.entry_price - fn_in.sl)
    IN  (stop_distance * BE_TRIGGER_R_MULT) \div 10

\* C21: over the life of a trade the stop changes at most once, only on a
\* bar whose favourable excursion from the entry reaches stop_distance x
\* BE_TRIGGER_R_MULT, and only in the favourable direction; the take-profit
\* and the entry price never change.
C21_BreakevenRule ==
    /\ fn_out.changes <= 1
    /\ fn_out.trade.tp = fn_in.tp
    /\ fn_out.trade.entry_price = fn_in.entry_price
    /\ fn_in.type = "BUY" => fn_out.trade.sl >= fn_out.prev.sl
    /\ fn_in.type = "SELL" => fn_out.trade.sl <= fn_out.prev.sl
    /\ fn_out.trade.sl # fn_out.prev.sl =>
          IF fn_in.type = "BUY"
          THEN fn_out.bar.high - fn_in.entry_price >= BreakevenTrigger
          ELSE fn_in.entry_price - fn_out.bar.low >= BreakevenTrigger

\* the stop was moved to the entry on one bar and a later triggering bar
\* left it there
C21_Witness ==
    /\ fn_out.changes = 1
    /\ fn_out.bars >= 2
    /\ fn_out.trade.sl = fn_in.entry_price
    /\ fn_out.prev.sl = fn_out.trade.sl
    /\ IF fn_in.type = "BUY"
       THEN fn_out.bar.high - fn_in.entry_price >= BreakevenTrigger
       ELSE fn_in.entry_price - fn_out.bar.low >= BreakevenTrigger

\* ---------------------------------------------------------------------
\* psychology.is_allowed as a function of the state and the bar it is
\* handed.  It assigns to no attribute of state_obj: the state after the
\* call is the state before it.

GateStates ==
    [trades_today : {0, MAX_TRADES_PER_DAY - 1, MAX_TRADES_PER_DAY,
                     MAX_TRADES_PER_DAY + 1},
     last_trade_bar : {0, 100},
     risk_throttle : BOOLEAN, trading_disabled : BOOLEAN]

GateBarIndexes == 100..107

GateInputs == [state : GateStates, bar_index : GateBarIndexes]

GateInit ==
    /\ ReplayIdle
    /\ fn_pc = "call"
    /\ fn_in \in GateInputs
    /\ fn_out = [allowed |-> FALSE, state |-> fn_in.state]

CallPsychologyIsAllowed ==
    /\ fn_pc = "call"
    /\ fn_pc' = "done"
    /\ fn_out' = [allowed |-> psychology_is_allowed(fn_in.state,
                                  [bar_index |-> fn_in.bar_index]),
                  state |-> fn_in.state]
    /\ UNCHANGED <<fn_in, replayvars>>

GateNext == CallPsychologyIsAllowed

SpecGate == GateInit /\ [][GateNext]_vars

C23_CooldownTimeline ==
    (/\ fn_pc = "done"
     /\ fn_in.state.last_trade_bar = 100
     /\ fn_in.state.trades_today < MAX_TRADES_PER_DAY
     /\ ~fn_in.state.risk_throttle
     /\ ~fn_in.state.trading_disabled)
        => (fn_out.allowed <=> fn_in.bar_index >= 106)

\* ---------------------------------------------------------------------
\* the direction of the trend signal agrees with / opposes the HTF trend
TrendCall == fn_pc = "done" /\ fn_in.fn = "trend"

TrendAgrees ==
    \/ (TrendDirection(fn_in) = "BUY" /\ fn_in.htf_trend = "up")
    \/ (TrendDirection(fn_in) = "SELL" /\ fn_in.htf_trend = "down")

TrendOpposes ==
    \/ (TrendDirection(fn_in) = "BUY" /\ fn_in.htf_trend = "down")
    \/ (TrendDirection(fn_in) = "SELL" /\ fn_in.htf_trend = "up")

\* C24: get_trend_following_signal gives the signal the regime's
\* risk_multiplier x 1.0 when its direction agrees with htf_trend, x 0.5
\* when htf_trend is flat, and returns no signal when the direction opposes
\* htf_trend.  (The signal's multiplier is in hundredths, the regime's in
\* tenths.)
C24_HtfAlignment ==
    (TrendCall /\ TrendDirection(fn_in) # "NONE") =>
        /\ TrendAgrees =>
              /\ fn_out # NoSignal
              /\ fn_out.risk_multiplier = fn_in.risk_multiplier * 10
        /\ fn_in.htf_trend = "flat" =>
              /\ fn_out # NoSignal
              /\ 2 * fn_out.risk_multiplier = fn_in.risk_multiplier * 10
        /\ TrendOpposes => fn_out = NoSignal

\* a flat HTF trend halves an expansion regime's 0.7
C24_Witness ==
    /\ TrendCall
    /\ fn_in.htf_trend = "flat"
    /\ fn_in.risk_multiplier = 7
    /\ fn_out # NoSignal
    /\ fn_out.risk_multiplier = 35
    /\ fn_out.direction = "SELL"

\* ---------------------------------------------------------------------
\* costs.py: the two cost gates as functions of the spread, the clock
\* (seconds of the UTC day) and, for simulate_acceptable, its parameters.

\* which of the three logging.info vetoes is_acceptable emits, "none" when
\* it reaches `return True`
is_acceptable_veto(current_spread_price, now_utc) ==
    IF 10 * current_spread_price > MEDIAN_SPREAD_PRICE * MAX_SPREAD_MULTIPLIER
    THEN "spread"
    ELSE IF is_in_rollover(now_utc) THEN "rollover"
    ELSE IF current_spread_price + EXPECTED_SLIPPAGE_PIPS > 3000 THEN "edge"
    ELSE "none"

simulate_acceptable_veto(current_spread_price, med_spread, max_spread_mult, expected_slippage_pips, now_utc) ==
    IF 10 * current_spread_price > med_spread * max_spread_mult THEN "spread"
    ELSE IF is_in_rollover(now_utc) THEN "rollover"
    ELSE IF current_spread_price + expected_slippage_pips > 3000 THEN "edge"
    ELSE "none"

CostInputs ==
    [fn : {"is_acceptable", "simulate_acceptable"},
     spread : {500, 1000, 1001, 1500, 1501, 3500},
     now : {0, 79139, 79140, 79300, 79500, 79501},
     med_spread : {1000, 2000}, max_spread_mult : {15},
     expected_slippage_pips : {0, 2000}]

CostInit ==
    /\ ReplayIdle
    /\ fn_pc = "call"
    /\ fn_in \in CostInputs
    /\ fn_out = [ok |-> FALSE, veto |-> "pending"]

CallIsAcceptable ==
    /\ fn_pc = "call"
    /\ fn_in.fn = "is_acceptable"
    /\ fn_pc' = "done"
    /\ fn_out' = [ok |-> is_acceptable(fn_in.spread, fn_in.now),
                  veto |-> is_acceptable_veto(fn_in.spread, fn_in.now)]
    /\ UNCHANGED <<fn_in, replayvars>>

CallSimulateAcceptable ==
    /\ fn_pc = "call"
    /\ fn_in.fn = "simulate_acceptable"
    /\ fn_pc' = "done"
    /\ fn_out' = [ok |-> simulate_acceptable(fn_in.spread, fn_in.med_spread,
                             fn_in.max_spread_mult,
                             fn_in.expected_slippage_pips, fn_in.now),
                  veto |-> simulate_acceptable_veto(fn_in.spread,
                               fn_in.med_spread, fn_in.max_spread_mult,
                               fn_in.expected_slippage_pips, fn_in.now)]
    /\ UNCHANGED <<fn_in, replayvars>>

CostNext == CallIsAcceptable \/ CallSimulateAcceptable

SpecCosts == CostInit /\ [][CostNext]_vars

\* the three conditions of the claim, on the parameters the call uses
CostSpreadTooWide ==
    IF fn_in.fn = "is_acceptable"
    THEN 10 * fn_in.spread > MEDIAN_SPREAD_PRICE * MAX_SPREAD_MULTIPLIER
    ELSE 10 * fn_in.spread > fn_in.med_spread * fn_in.max_spread_mult

\* 21:59:00 to 22:05:00 of the day
CostInRollover ==
    21 * 3600 + 59 * 60 <= fn_in.now /\ fn_in.now <= 22 * 3600 + 5 * 60

CostExceedsEdge ==
    IF fn_in.fn = "is_acceptable"
    THEN fn_in.spread + EXPECTED_SLIPPAGE_PIPS > 3000
    ELSE fn_in.spread + fn_in.expected_slippage_pips > 3000

MaxDaysHeld == 2

\* 22:00 of day d of the replay
RolloverInstant(d) == BT_START_EPOCH + d * 86400 + 22 * 3600

SwapEntryTimes ==
    {BT_START_EPOCH + 43200, RolloverInstant(0) - 1, RolloverInstant(0),
     RolloverInstant(0) + 1}

SwapExitTimes ==
    {BT_START_EPOCH + 43200, RolloverInstant(0) - 1, RolloverInstant(0),
     RolloverInstant(0) + 1}
        \cup {RolloverInstant(d) - 1 : d \in 1..MaxDaysHeld}
        \cup {RolloverInstant(d) : d \in 1..MaxDaysHeld}

SwapInputs ==
    [time : SwapEntryTimes, exit_time : SwapExitTimes,
     type : {"BUY", "SELL"}, size : {3, 100},
     swap_long : {-5000, 0, 5000}, swap_short : {-2500, 0},
     gross_pnl : {-45000, 90000}]

SwapInit ==
    /\ ReplayIdle
    /\ fn_pc = "open"
    /\ fn_in \in SwapInputs
    /\ fn_out = [rollovers |-> 0, swap_cost |-> 0, net_pnl |-> 0,
                 net_pnl_rate0 |-> 0]

\* the swap lines of the exit block, with the pnl the same exit books
\* under rates of 0
BookSwap ==
    /\ fn_pc = "open"
    /\ fn_pc' = "booked"
    /\ LET swap_cost == _calc_swap_at(fn_in, fn_in.exit_time,
                                      fn_in.swap_long, fn_in.swap_short)
       IN  fn_out' =
               [rollovers |-> _count_rollovers(fn_in.time, fn_in.exit_time),
                swap_cost |-> swap_cost,
                net_pnl |-> NetPnl(fn_in.gross_pnl, 0, swap_cost),
                net_pnl_rate0 |->
                    NetPnl(fn_in.gross_pnl, 0,
                           _calc_swap_at(fn_in, fn_in.exit_time, 0, 0))]
    /\ UNCHANGED <<fn_in, replayvars>>

SwapNext == BookSwap

SpecSwap == SwapInit /\ [][SwapNext]_vars

\* the 22:00 instants t with entry < t <= exit
RolloversCrossed ==
    Cardinality({d \in 0..(MaxDaysHeld + 1) :
                    /\ fn_in.time < RolloverInstant(d)
                    /\ RolloverInstant(d) <= fn_in.exit_time})

SwapRate == IF fn_in.type = "BUY" THEN fn_in.swap_long ELSE fn_in.swap_short

\* C26: _count_rollovers equals the number of daily 22:00 instants t with
\* entry < t <= exit (0 when exit <= entry), and the swap is rate(direction)
\* x size x that count.
C26_SwapAccrual ==
    fn_pc = "booked" =>
        /\ fn_out.rollovers = RolloversCrossed
        /\ fn_in.exit_time <= fn_in.time => fn_out.rollovers = 0
        /\ fn_out.swap_cost = (SwapRate * fn_in.size * RolloversCrossed) \div 100

\* entered exactly at 22:00 and held over the next two rollovers
C26_Witness ==
    /\ fn_pc = "booked"
    /\ fn_in.time = RolloverInstant(0)
    /\ fn_in.exit_time = RolloverInstant(2)
    /\ fn_out.rollovers = 2
    /\ fn_out.swap_cost # 0

\* C27: for a trade held across at least one rollover, a negative swap rate
\* is a cost (the booked net pnl is smaller than with rate 0) and a positive
\* rate is a credit (the booked net pnl is larger).
C27_SwapSign ==
    (fn_pc = "booked" /\ fn_out.rollovers >= 1) =>
        /\ SwapRate < 0 => fn_out.net_pnl < fn_out.net_pnl_rate0
        /\ SwapRate > 0 => fn_out.net_pnl > fn_out.net_pnl_rate0

\* ---------------------------------------------------------------------
\* the iteration after an entry closed the trade at the stop it was opened
\* with (the break-even rule did not move it on that bar)
StoppedAtOriginalStop ==
    /\ fn_pc = "managed"
    /\ Len(fn_out.after.trade_history) = 1
    /\ fn_out.after.trade_history[1].result = "LOSS"
    /\ _maybe_move_breakeven(fn_out.decided.active_trade,
                             fn_out.current_bar_data).sl
           = fn_out.decided.active_trade.sl

MaxReportTrades == 3

\* net pnl of one trade, in cents
ReportPnls == {-1000, 500, 2000}

RECURSIVE BalanceColumn(_, _)
\* the 'balance' column: equity after each trade of a replay that started
\* with BT_INITIAL_BALANCE
BalanceColumn(pnls, k) ==
    IF k = 0 THEN <<>>
    ELSE LET before == BalanceColumn(pnls, k - 1)
             equity_before == IF k = 1 THEN McInitialBalance ELSE before[k - 1]
         IN  Append(before, equity_before + pnls[k])

ReportInputs == {[initial_balance |-> McInitialBalance, balance |-> BalanceColumn(pnls, Len(pnls))] : pnls \in UNION {[1..n -> ReportPnls] : n \in 0..MaxReportTrades}}

\* df['balance'].cummax()
cummax(column) == [k \in 1..Len(column) |-> PeakOf(column, k)]

RECURSIVE ColumnMin(_, _)
\* min() of the first k values of a column
ColumnMin(column, k) ==
    IF k = 1 THEN column[1]
    ELSE LET m == ColumnMin(column, k - 1)
         IN  IF column[k] < m THEN column[k] ELSE m

RECURSIVE ListMax(_, _)
\* max() of the first k values of a list
ListMax(list, k) ==
    IF k = 1 THEN list[1] ELSE Max(ListMax(list, k - 1), list[k])

ReportInit ==
    /\ ReplayIdle
    /\ fn_pc = "report"
    /\ fn_in \in ReportInputs
    /\ fn_out = [equity_peak |-> <<>>, drawdown_pct |-> <<>>, max_drawdown |-> 0, is_underwater |-> <<>>, passes |-> 0, count |-> 0, tuw_durations |-> <<>>, max_tuw |-> 0, report |-> "none"]

\* generate_report on an empty frame returns the message
ReportNoTrades ==
    /\ fn_pc = "report"
    /\ Len(fn_in.balance) = 0
    /\ fn_pc' = "no_trades"
    /\ fn_out' = [fn_out EXCEPT !.report = "No trades were executed during this period."]
    /\ UNCHANGED <<fn_in, replayvars>>

\* the drawdown columns, max_drawdown and the underwater flags
ReportDrawdowns ==
    /\ fn_pc = "report"
    /\ Len(fn_in.balance) > 0
    /\ fn_pc' = "tuw_loop"
    /\ LET balance == fn_in.balance
           equity_peak == cummax(balance)
           drawdown_pct == [k \in 1..Len(balance) |-> ((balance[k] - equity_peak[k]) * 10000) \div equity_peak[k]]
       IN  fn_out' = [fn_out EXCEPT !.equity_peak = equity_peak,
                                    !.drawdown_pct = drawdown_pct,
                                    !.max_drawdown = ColumnMin(drawdown_pct, Len(drawdown_pct)),
                                    !.is_underwater = [k \in 1..Len(balance) |-> drawdown_pct[k] < 0]]
    /\ UNCHANGED <<fn_in, replayvars>>

\* one pass of the loop over is_underwater
ReportTuwPass ==
    /\ fn_pc = "tuw_loop"
    /\ fn_out.passes < Len(fn_out.is_underwater)
    /\ LET val == fn_out.is_underwater[fn_out.passes + 1]
       IN  fn_out' = [fn_out EXCEPT !.passes = @ + 1,
                                    !.count = IF val THEN @ + 1 ELSE 0,
                                    !.tuw_durations = IF ~val /\ fn_out.count > 0 THEN Append(@, fn_out.count) ELSE @]
    /\ UNCHANGED <<fn_pc, fn_in, replayvars>>

\* after the loop: max_tuw and the report
ReportTuwMax ==
    /\ fn_pc = "tuw_loop"
    /\ fn_out.passes = Len(fn_out.is_underwater)
    /\ fn_pc' = "reported"
    /\ fn_out' = [fn_out EXCEPT !.max_tuw = IF fn_out.tuw_durations # <<>> THEN ListMax(fn_out.tuw_durations, Len(fn_out.tuw_durations)) ELSE 0,
                                !.report = "report_dict"]
    /\ UNCHANGED <<fn_in, replayvars>>

ReportNext == ReportNoTrades \/ ReportDrawdowns \/ ReportTuwPass \/ ReportTuwMax

SpecReport == ReportInit /\ [][ReportNext]_vars

\* trade k closed with the balance below the running peak of the balances
BelowPeak(k) == fn_in.balance[k] < PeakOf(fn_in.balance, k)

RECURSIVE RunEndingAt(_)
\* length of the run of consecutive trades below the peak that ends at trade k
RunEndingAt(k) ==
    IF k = 0 \/ ~BelowPeak(k) THEN 0 ELSE RunEndingAt(k - 1) + 1

RECURSIVE LongestRun(_)
\* the longest such run among the first k trades
LongestRun(k) ==
    IF k = 0 THEN 0 ELSE Max(LongestRun(k - 1), RunEndingAt(k))

\* C29: the reported time under water is the length of the longest run of
\* consecutive trades whose balance is below the running equity peak,
\* a run still in progress at the last trade included.
C29_TimeUnderWater ==
    fn_pc = "reported" => fn_out.max_tuw = LongestRun(Len(fn_in.balance))

\* C30: the report's max drawdown equals monte_carlo._max_drawdown applied
\* to the starting balance followed by the trade balances.
C30_MaxDrawdown ==
    fn_pc = "reported" =>
        fn_out.max_drawdown = _max_drawdown(<<fn_in.initial_balance>> \o fn_in.balance)

\* ---------------------------------------------------------------------
\* walk_forward.py: run_walk_forward.  Dates are whole days counted from
\* BT_START_DATE (2025-12-01); BT_END_DATE (2026-01-01) is day 31.
BT_RANGE_DAYS == 31

WalkForwardInputs == [train_days : {0, 20, 29}, test_days : {1, 5, 7}, step_days : {1, 5, 7}]

\* what _run_simulation_core sets up before its loop (equity, bt_state)
ReplaySetup(start_date) == [equity |-> BT_INITIAL_BALANCE, bt_state |-> FreshState, trading_day |-> start_date]

WalkForwardInit ==
    /\ ReplayIdle
    /\ fn_pc = "walking"
    /\ fn_in \in WalkForwardInputs
    /\ fn_out = [test_start |-> fn_in.train_days, window |-> <<>>]

\* one pass of the while loop whose replay returns (a report, or None)
ReplayWindow ==
    /\ fn_pc = "walking"
    /\ fn_out.test_start + fn_in.test_days <= BT_RANGE_DAYS
    /\ LET test_end == fn_out.test_start + fn_in.test_days
       IN  fn_out' = [test_start |-> fn_out.test_start + fn_in.step_days,
                      window |-> Append(fn_out.window, [test_start |-> fn_out.test_start, test_end |-> test_end, report |-> "returned", setup |-> ReplaySetup(fn_out.test_start)])]
    /\ UNCHANGED <<fn_pc, fn_in, replayvars>>

\* one pass whose replay raises (the cost gate's call, or the subscript of
\* the no-trades message): nothing in run_walk_forward catches it
ReplayWindowRaises ==
    /\ fn_pc = "walking"
    /\ fn_out.test_start + fn_in.test_days <= BT_RANGE_DAYS
    /\ fn_pc' = "raised"
    /\ UNCHANGED <<fn_in, fn_out, replayvars>>

\* the loop condition fails: return window
WalkForwardReturn ==
    /\ fn_pc = "walking"
    /\ ~(fn_out.test_start + fn_in.test_days <= BT_RANGE_DAYS)
    /\ fn_pc' = "returned"
    /\ UNCHANGED <<fn_in, fn_out, replayvars>>

WalkForwardNext == ReplayWindow \/ ReplayWindowRaises \/ WalkForwardReturn

SpecWalkForward == WalkForwardInit /\ [][WalkForwardNext]_vars

\* s_k of the claim
WindowStart(k) == fn_in.train_days + k * fn_in.step_days

\* the number of k >= 0 with s_k + test_days <= end
WindowCount == IF fn_in.train_days + fn_in.test_days > BT_RANGE_DAYS THEN 0 ELSE (BT_RANGE_DAYS - fn_in.train_days - fn_in.test_days) \div fn_in.step_days + 1

\* the windows replayed so far are s_0, s_1, ... in order, each inside
\* [start + train_days, end] and each replay set up afresh
WindowsInOrder ==
    \A j \in 1..Len(fn_out.window) :
        /\ fn_out.window[j].test_start = WindowStart(j - 1)
        /\ fn_out.window[j].test_end = WindowStart(j - 1) + fn_in.test_days
        /\ fn_out.window[j].test_start >= fn_in.train_days
        /\ fn_out.window[j].test_end <= BT_RANGE_DAYS
        /\ fn_out.window[j].setup = ReplaySetup(WindowStart(j - 1))
        /\ (fn_in.step_days >= fn_in.test_days /\ j > 1) => fn_out.window[j - 1].test_end <= fn_out.window[j].test_start

\* C31: run_walk_forward ends having replayed exactly the windows
\* [s_k, s_k + test_days] for every k >= 0 with s_k + test_days <= end, in
\* increasing order of k, each inside [start + train_days, end], disjoint
\* when step_days >= test_days, each from a fresh state and balance.
C31_WalkForwardWindows ==
    /\ WindowsInOrder
    /\ fn_pc \in {"returned", "raised"} => Len(fn_out.window) = WindowCount

\* ---------------------------------------------------------------------
\* execution.py: execute_trade.  A retcode is named by its MetaTrader5
\* constant; ticks[attempt] tells whether symbol_info_tick returned a tick
\* for that attempt, retcodes[attempt] what order_send would answer.
Retcodes == {"TRADE_RETCODE_DONE", "TRADE_RETCODE_REQUOTE", "TRADE_RETCODE_PRICE_CHANGED", "TRADE_RETCODE_OFF_QUOTES", "TRADE_RETCODE_REJECT"}

NoResult == [retcode |-> "None"]

AttemptOutcome_retry_all(ticks, retcodes, attempt) ==
    IF ~ticks[attempt] THEN "continue_unsent"
    ELSE IF retcodes[attempt] = "TRADE_RETCODE_DONE" THEN "return"
    ELSE "continue"

\* one pass of the for loop: what ends it
AttemptOutcome(ticks, retcodes, attempt) ==
    IF ~ticks[attempt] THEN "continue_unsent"
    ELSE IF retcodes[attempt] = "TRADE_RETCODE_DONE" THEN "return"
    ELSE IF retcodes[attempt] \in {"TRADE_RETCODE_REQUOTE", "TRADE_RETCODE_PRICE_CHANGED"} THEN "continue"
    ELSE IF retcodes[attempt] = "TRADE_RETCODE_OFF_QUOTES" THEN "continue"
    ELSE "break"

RECURSIVE AttemptsFrom(_, _, _, _)
\* the loop from the given attempt on; sent lists the retcodes of the
\* orders sent so far
AttemptsFrom(ticks, retcodes, attempt, sent) ==
    IF attempt > 2 THEN [result |-> NoResult, sent |-> sent]
    ELSE LET outcome == AttemptOutcome(ticks, retcodes, attempt)
             now_sent == IF outcome = "continue_unsent" THEN sent ELSE Append(sent, retcodes[attempt])
         IN  IF outcome = "return" THEN [result |-> [retcode |-> retcodes[attempt]], sent |-> now_sent]
             ELSE IF outcome = "break" THEN [result |-> NoResult, sent |-> now_sent]
             ELSE AttemptsFrom(ticks, retcodes, attempt + 1, now_sent)

execute_trade(has_position, volume, ticks, retcodes) ==
    IF has_position THEN [result |-> NoResult, sent |-> <<>>]
    ELSE IF volume <= 0 THEN [result |-> NoResult, sent |-> <<>>]
    ELSE AttemptsFrom(ticks, retcodes, 1, <<>>)

ExecutionInputs == [has_position : BOOLEAN, volume : {0, 3}, ticks : [1..2 -> BOOLEAN], retcodes : [1..2 -> Retcodes]]

ExecutionInit ==
    /\ ReplayIdle
    /\ fn_pc = "call"
    /\ fn_in \in ExecutionInputs
    /\ fn_out = [result |-> NoResult, sent |-> <<>>]

CallExecuteTrade ==
    /\ fn_pc = "call"
    /\ fn_pc' = "returned"
    /\ fn_out' = execute_trade(fn_in.has_position, fn_in.volume, fn_in.ticks, fn_in.retcodes)
    /\ UNCHANGED <<fn_in, replayvars>>

ExecutionNext == CallExecuteTrade

SpecExecution == ExecutionInit /\ [][ExecutionNext]_vars

Retriable == {"TRADE_RETCODE_REQUOTE", "TRADE_RETCODE_PRICE_CHANGED", "TRADE_RETCODE_OFF_QUOTES"}

\* C33: one call of execute_trade sends at most two orders, none when a
\* position exists or volume <= 0; no order follows a result with retcode
\* DONE or with a retcode that is not retried; the call returns a result
\* exactly when an order got retcode DONE, and that result is the DONE one.
C33_BoundedRetry ==
    fn_pc = "returned" =>
        /\ Len(fn_out.sent) <= 2
        /\ (fn_in.has_position \/ fn_in.volume <= 0) => fn_out.sent = <<>>
        /\ \A k \in 1..Len(fn_out.sent) : k < Len(fn_out.sent) => fn_out.sent[k] \in Retriable
        /\ fn_out.result # NoResult => fn_out.result.retcode = "TRADE_RETCODE_DONE"
        /\ fn_out.result = NoResult <=> \A k \in 1..Len(fn_out.sent) : fn_out.sent[k] # "TRADE_RETCODE_DONE"

\* a requote on the first attempt is retried and the second order is filled
C33_Witness ==
    /\ fn_pc = "returned"
    /\ fn_out.sent = <<"TRADE_RETCODE_REQUOTE", "TRADE_RETCODE_DONE">>
    /\ fn_out.result.retcode = "TRADE_RETCODE_DONE"

\* ---------------------------------------------------------------------
\* main.py: run_trading_loop with its StateManager, monitoring and
\* execution.  Slippage in milli-pips; a mock bar's bar_index advances by 60
\* (seconds) from one iteration to the next; days are numbered as in the
\* monitoring section.
MaxLiveIterations == 7

MaxLiveDays == 2

SlippageValues == {0, 6000}

\* monitoring.analyze_execution; slippage_window is the attribute the
\* function hangs on the state object, median_slippage_x2 twice np.median
analyze_execution(slippage_pips, state_obj, slippage_window) ==
    LET appended == Append(slippage_window, slippage_pips)
        kept == IF Len(appended) > 20 THEN Tail(appended) ELSE appended
        sorted == SortAscending(kept)
        n == Len(kept)
        median_slippage_x2 == IF n % 2 = 1 THEN 2 * sorted[(n + 1) \div 2] ELSE sorted[n \div 2] + sorted[n \div 2 + 1]
        drift_threshold == EXPECTED_SLIPPAGE_PIPS + 3000
    IN  [state |-> IF n >= 5
                   THEN [state_obj EXCEPT !.risk_throttle = (median_slippage_x2 > 2 * drift_threshold \/ median_slippage_x2 > 2 * 5500)]
                   ELSE state_obj,
         slippage_window |-> kept]

\* what StateManager(config.STATE_FILE_PATH) finds: no file, or the record
\* an earlier run saved on day 1
LoadedStates == {DefaultMonitored, [trading_day |-> 1, trades_today |-> 4, last_trade_bar |-> -600, risk_throttle |-> FALSE, trading_disabled |-> FALSE, consecutive_losses |-> 0, execution_failures |-> 2]}

\* what order_send answers on the two attempts of one call
LiveRetcodes == {<<"TRADE_RETCODE_DONE", "TRADE_RETCODE_DONE">>, <<"TRADE_RETCODE_REQUOTE", "TRADE_RETCODE_DONE">>, <<"TRADE_RETCODE_REQUOTE", "TRADE_RETCODE_REJECT">>, <<"TRADE_RETCODE_REJECT", "TRADE_RETCODE_DONE">>}

NoIteration == [kind |-> "none", sent |-> <<>>, reset |-> FALSE, trades_before |-> 0, failures_before |-> 0]

LiveInit ==
    /\ ReplayIdle
    /\ fn_pc = "loop"
    /\ fn_in \in LoadedStates
    /\ fn_out = [state |-> fn_in, slippage_window |-> <<>>, persisted |-> IF fn_in = DefaultMonitored THEN NoFile ELSE fn_in, today |-> 1, bar |-> 0, since_reset |-> 0, last |-> NoIteration]

\* one iteration of the while loop.  early: the stages before psychology
\* (bar, regime, signal) veto or pass; late: session, costs and risk veto,
\* pass, or raise into the loop's except Exception
LiveIteration ==
    /\ fn_pc = "loop"
    /\ fn_out.bar < MaxLiveIterations
    /\ \E today \in {fn_out.today, Min(fn_out.today + 1, MaxLiveDays)}, early \in {"veto", "pass"}, late \in {"veto", "raise", "pass"}, has_position \in BOOLEAN, retcodes \in LiveRetcodes, slippage_pips \in SlippageValues :
        LET is_new_day == fn_out.state.trading_day # today
            reset == reset_if_new_day(fn_out.state, today)
            saved_reset == IF is_new_day THEN reset ELSE fn_out.persisted
            since == IF is_new_day THEN 0 ELSE fn_out.since_reset
            bar == [bar_index |-> 60 * (fn_out.bar + 1)]
            base == [fn_out EXCEPT !.today = today, !.bar = @ + 1, !.state = reset, !.persisted = saved_reset, !.since_reset = since]
            before == [sent |-> <<>>, reset |-> is_new_day, trades_before |-> reset.trades_today, failures_before |-> reset.execution_failures]
        IN  IF reset.trading_disabled
            THEN /\ fn_pc' = "stopped"
                 /\ fn_out' = [base EXCEPT !.last = before @@ [kind |-> "break"]]
            ELSE /\ fn_pc' = "loop"
                 /\ IF early = "veto" \/ ~psychology_is_allowed(reset, bar) \/ late = "veto"
                    THEN fn_out' = [base EXCEPT !.last = before @@ [kind |-> "veto"]]
                    ELSE IF late = "raise"
                    THEN fn_out' = [base EXCEPT !.last = before @@ [kind |-> "exception"]]
                    ELSE LET execution == execute_trade(has_position, 3, [k \in 1..2 |-> TRUE], retcodes)
                         IN  IF execution.result # NoResult
                             THEN LET counted == [reset EXCEPT !.trades_today = @ + 1, !.last_trade_bar = bar.bar_index]
                                      analyzed == analyze_execution(slippage_pips, counted, fn_out.slippage_window)
                                  IN  fn_out' = [base EXCEPT !.state = analyzed.state, !.slippage_window = analyzed.slippage_window, !.persisted = counted, !.last = [before EXCEPT !.sent = execution.sent] @@ [kind |-> "executed"]]
                             ELSE LET failed == log_execution_failure(reset)
                                  IN  fn_out' = [base EXCEPT !.state = failed, !.persisted = failed, !.since_reset = @ + 1, !.last = [before EXCEPT !.sent = execution.sent] @@ [kind |-> "failed"]]
    /\ UNCHANGED <<fn_in, replayvars>>

\* broker.set_global_kill_switch, the operator's call during manual review
OperatorKillSwitch ==
    /\ fn_pc = "stopped"
    /\ \E status \in BOOLEAN :
        LET set == [fn_out.state EXCEPT !.trading_disabled = status]
        IN  fn_out' = [fn_out EXCEPT !.state = set, !.persisted = set, !.last = [NoIteration EXCEPT !.kind = "operator"]]
    /\ UNCHANGED <<fn_pc, fn_in, replayvars>>

LiveNext == LiveIteration \/ OperatorKillSwitch

SpecLive == LiveInit /\ [][LiveNext]_vars

\* the iteration just run changed TradingState
LiveStateChanged == fn_out.last.kind \in {"executed", "failed"} \/ (fn_out.last.kind \in {"veto", "exception", "break"} /\ fn_out.last.reset)

C38_FailureCounting ==
    [][/\ fn_out'.last.kind = "failed" => fn_out'.state.execution_failures = fn_out'.last.failures_before + 1
       /\ (fn_pc' = "loop" /\ fn_out'.since_reset >= 3) => fn_out'.state.trading_disabled
       /\ (fn_pc = "loop" /\ fn_out.state.trading_disabled) => (fn_pc' = "stopped" /\ fn_out'.last.sent = <<>>)]_vars

\* three calls returned None on one day and the next iteration stopped the
\* loop
C38_Witness ==
    /\ fn_pc = "stopped"
    /\ fn_out.last.kind = "break"
    /\ fn_out.since_reset = 3
    /\ fn_out.state.execution_failures = 3
    /\ fn_out.state.trading_disabled

\* C39: trades_today never exceeds MAX_TRADES_PER_DAY; it grows by exactly
\* 1 and only in an iteration whose execute_trade succeeded; it falls
\* only through the day reset, to 0, with both flags left as they were.
C39_LiveDailyCounter ==
    [][/\ fn_out'.state.trades_today <= MAX_TRADES_PER_DAY
       /\ fn_out'.last.kind # "operator" =>
            /\ fn_out'.last.trades_before # fn_out.state.trades_today => (fn_out'.last.reset /\ fn_out'.last.trades_before = 0)
            /\ fn_out'.last.reset => fn_out'.last.trades_before = 0
            /\ fn_out'.last.kind = "executed" => fn_out'.state.trades_today = fn_out'.last.trades_before + 1
            /\ fn_out'.last.kind # "executed" => fn_out'.state.trades_today = fn_out'.last.trades_before
            /\ (fn_out'.last.reset /\ fn_out'.last.kind \in {"veto", "exception", "break"}) => (fn_out'.state.trading_disabled = fn_out.state.trading_disabled /\ fn_out'.state.risk_throttle = fn_out.state.risk_throttle)]_vars

\* the fifth trade of the day was executed
C39_Witness ==
    /\ fn_out.last.kind = "executed"
    /\ fn_out.state.trades_today = MAX_TRADES_PER_DAY
    /\ fn_out.last.trades_before = MAX_TRADES_PER_DAY - 1

\* ---------------------------------------------------------------------
\* The operations that write trading_disabled and risk_throttle, called in
\* any order on one state object: monitoring.py, reset_if_new_day and
\* broker.set_global_kill_switch.
MaxLatchCount == 5

MaxLatchWindow == 6

set_global_kill_switch(state_obj, status) == [state_obj EXCEPT !.trading_disabled = status]

LatchInit ==
    /\ ReplayIdle
    /\ fn_pc = "calls"
    /\ fn_in = [call |-> "none"]
    /\ fn_out = [state |-> DefaultMonitored, slippage_window |-> <<>>]

LatchAnalyzeExecution ==
    /\ fn_pc = "calls"
    /\ Len(fn_out.slippage_window) < MaxLatchWindow
    /\ fn_in' = [call |-> "analyze_execution"]
    /\ \E slippage_pips \in SlippageValues :
        fn_out' = analyze_execution(slippage_pips, fn_out.state, fn_out.slippage_window)
    /\ UNCHANGED <<fn_pc, replayvars>>

LatchUpdateStatistics ==
    /\ fn_pc = "calls"
    /\ fn_out.state.consecutive_losses < MaxLatchCount
    /\ fn_in' = [call |-> "update_statistics"]
    /\ \E trade_won \in BOOLEAN :
        fn_out' = [fn_out EXCEPT !.state = update_statistics(trade_won, @)]
    /\ UNCHANGED <<fn_pc, replayvars>>

LatchLogExecutionFailure ==
    /\ fn_pc = "calls"
    /\ fn_out.state.execution_failures < MaxLatchCount
    /\ fn_in' = [call |-> "log_execution_failure"]
    /\ fn_out' = [fn_out EXCEPT !.state = log_execution_failure(@)]
    /\ UNCHANGED <<fn_pc, replayvars>>

LatchResetIfNewDay ==
    /\ fn_pc = "calls"
    /\ fn_in' = [call |-> "reset_if_new_day"]
    /\ \E today \in 1..MaxDays :
        fn_out' = [fn_out EXCEPT !.state = reset_if_new_day(@, today)]
    /\ UNCHANGED <<fn_pc, replayvars>>

LatchSetGlobalKillSwitch ==
    /\ fn_pc = "calls"
    /\ fn_in' = [call |-> "set_global_kill_switch"]
    /\ \E status \in BOOLEAN :
        fn_out' = [fn_out EXCEPT !.state = set_global_kill_switch(@, status)]
    /\ UNCHANGED <<fn_pc, replayvars>>

LatchNext == LatchAnalyzeExecution \/ LatchUpdateStatistics \/ LatchLogExecutionFailure \/ LatchResetIfNewDay \/ LatchSetGlobalKillSwitch

SpecLatch == LatchInit /\ [][LatchNext]_vars

\* C32: trading_disabled and risk_throttle, once set, stay set through
\* every call of reset_if_new_day, analyze_execution, update_statistics and
\* log_execution_failure; only set_global_kill_switch clears
\* trading_disabled.
C32_KillSwitchLatch ==
    [][fn_in'.call # "set_global_kill_switch" =>
          /\ fn_out.state.trading_disabled => fn_out'.state.trading_disabled
          /\ fn_out.state.risk_throttle => fn_out'.state.risk_throttle]_vars

\* ---------------------------------------------------------------------
\* data.py: get_processed_bar, with calculate_atr of indicators.py computed
\* as the code computes it (the other indicators of
\* enrich_bar_with_indicators take the same arrays and are left out).
\* ATR_PERIOD is 14 and the fetch 100 bars long in the source; the model
\* scales them to AtrPeriod and four bars.
AtrPeriod == 2

RateBar(kind, t) == [time |-> t, open |-> 11000000, close |-> IF kind = "up" THEN 11020000 ELSE IF kind = "down" THEN 10980000 ELSE 11000000, high |-> IF kind = "up" THEN 11025000 ELSE IF kind = "broken" THEN 10990000 ELSE 11005000, low |-> IF kind = "down" THEN 10975000 ELSE 10995000, tick_volume |-> 10]

NoTick == [ask |-> 0, bid |-> 0, missing |-> TRUE]

DataInputs == [closed : {"quiet", "up", "broken"}, forming : {"quiet", "up", "down"}, forming_twin : {"quiet", "up", "down"}, tick : {NoTick, [ask |-> 11000600, bid |-> 10999400, missing |-> FALSE], [ask |-> 11000000, bid |-> 11000000, missing |-> FALSE]}]

\* mt5.copy_rates_from_pos(SYMBOL, TIMEFRAME_M1, 0, n): oldest bar first,
\* the bar still forming last
RatesOf(closed, forming) == <<RateBar("quiet", 60), RateBar("quiet", 120), RateBar(closed, 180), RateBar(forming, 240)>>

\* tr[k] of calculate_atr, for the bar at position k + 1
TrueRange(rates, k) == Max(rates[k + 1].high - rates[k + 1].low, Max(Abs(rates[k + 1].high - rates[k].close), Abs(rates[k + 1].low - rates[k].close)))

RECURSIVE SumTrueRange(_, _, _)
\* tr[from] + ... + tr[to]
SumTrueRange(rates, from, to) ==
    IF from > to THEN 0 ELSE TrueRange(rates, to) + SumTrueRange(rates, from, to - 1)

calculate_atr(rates, period) ==
    LET len_tr == Len(rates) - 1
    IN  IF len_tr < period THEN 0
        ELSE SumTrueRange(rates, len_tr - period + 1, len_tr) \div period

enrich_bar_with_indicators(rates) == [atr |-> calculate_atr(rates, AtrPeriod)]

NoBar == [bar_index |-> 0, missing |-> TRUE]

get_processed_bar(rates, tick) ==
    IF Len(rates) < 2 THEN NoBar
    ELSE LET closed_bar == rates[Len(rates) - 1]
             spread == tick.ask - tick.bid
             metrics == enrich_bar_with_indicators(rates)
         IN  IF ~validate_bar_integrity(closed_bar) THEN NoBar
             ELSE IF tick.missing THEN NoBar
             ELSE IF spread <= 0 THEN NoBar
             ELSE [bar_index |-> closed_bar.time, timestamp |-> closed_bar.time, open |-> closed_bar.open, high |-> closed_bar.high, low |-> closed_bar.low, close |-> closed_bar.close, volume |-> closed_bar.tick_volume, spread |-> spread, range |-> closed_bar.high - closed_bar.low, missing |-> FALSE] @@ metrics

DataInit ==
    /\ ReplayIdle
    /\ fn_pc = "fetch"
    /\ fn_in \in DataInputs
    /\ fn_out = [bar |-> NoBar, twin |-> NoBar]

\* the call, and the same call had the forming bar been forming_twin
CallGetProcessedBar ==
    /\ fn_pc = "fetch"
    /\ fn_pc' = "returned"
    /\ fn_out' = [bar |-> get_processed_bar(RatesOf(fn_in.closed, fn_in.forming), fn_in.tick), twin |-> get_processed_bar(RatesOf(fn_in.closed, fn_in.forming_twin), fn_in.tick)]
    /\ UNCHANGED <<fn_in, replayvars>>

DataNext == CallGetProcessedBar

SpecData == DataInit /\ [][DataNext]_vars

\* C34: the bar get_processed_bar returns does not depend on rates[-1],
\* the bar still forming: its fields are those of rates[-2] and its
\* indicators are the same whatever the forming bar is.
C34_NoLookahead ==
    fn_pc = "returned" =>
        /\ fn_out.bar = fn_out.twin
        /\ ~fn_out.bar.missing => (fn_out.bar.close = RateBar(fn_in.closed, 180).close /\ fn_out.bar.bar_index = 180)

\* ---------------------------------------------------------------------
\* the BUY just opened meets a bar whose high reaches the break-even
\* trigger and whose low reaches entry + offset
BreakevenBarOfBuy ==
    /\ fn_pc = "managed"
    /\ fn_out.decided.active_trade.type = "BUY"
    /\ LET trade == fn_out.decided.active_trade
           stop_distance == IF trade.stop_distance # 0 THEN trade.stop_distance ELSE Abs(trade.entry_price - trade.sl)
       IN  /\ stop_distance > 0
           /\ fn_out.current_bar_data.high >= trade.entry_price + (stop_distance * BE_TRIGGER_R_MULT) \div 10
           /\ fn_out.current_bar_data.low <= trade.entry_price + BE_OFFSET_PIPS * PIP_SIZE

\* net pnl of the opened BUY filled at the break-even stop
PnlAtBreakevenStop ==
    LET trade == fn_out.decided.active_trade
        mid_exit == trade.entry_price + BE_OFFSET_PIPS * PIP_SIZE
        exit_exec == mid_exit - trade.spread \div 2 - (trade.slippage_pips * PIP_SIZE) \div 1000
    IN  NetPnl((exit_exec - trade.entry_price) * trade.size, (trade.commission_per_lot * trade.size * 2) \div 100, _calc_swap(trade, fn_out.current_bar_data.time))

\* C35: the break-even move comes before the exit check of the same bar: a
\* BUY whose bar has high >= entry + trigger and low <= entry + offset is
\* closed on that bar at the break-even stop, result LOSS, also when the
\* low reached the original stop.
C35_BreakevenBeforeExit ==
    BreakevenBarOfBuy =>
        /\ fn_out.after.active_trade = NoTrade
        /\ Len(fn_out.after.trade_history) = 1
        /\ fn_out.after.trade_history[1].result = "LOSS"
        /\ fn_out.after.trade_history[1].exit_time = fn_out.current_bar_data.time
        /\ fn_out.after.trade_history[1].pnl = PnlAtBreakevenStop

\* the bar's low also reached the stop the BUY was opened with
C35_Witness ==
    /\ BreakevenBarOfBuy
    /\ fn_out.current_bar_data.low <= fn_out.decided.active_trade.sl
    /\ fn_out.decided.active_trade.sl < fn_out.decided.active_trade.entry_price
    /\ fn_out.after.trade_history[1].pnl = PnlAtBreakevenStop

ReplayReturn ==
    /\ fn_pc = "reported"
    /\ fn_out.report = "report_dict"
    /\ fn_pc' = "returned"
    /\ UNCHANGED <<fn_in, fn_out, replayvars>>

\* the same statement when generate_report gave the no-trades message: the
\* subscript 'print_report' on a str raises TypeError, nothing catches it
ReplayReturnRaises ==
    /\ fn_pc = "no_trades"
    /\ fn_out.report = "No trades were executed during this period."
    /\ fn_pc' = "raised"
    /\ UNCHANGED <<fn_in, fn_out, replayvars>>

ReplayEndNext == ReportNext \/ ReplayReturn \/ ReplayReturnRaises

SpecReplayEnd == ReportInit /\ [][ReplayEndNext]_vars

\* C40: a replay that closed no trade (trade_history is empty when the bar
\* loop ends) does not raise; it returns the analyzer's no-trades report
\* together with the empty trade list.
C40_ZeroTradeReplay ==
    Len(fn_in.balance) = 0 =>
        /\ fn_pc # "raised"
        /\ fn_pc \in {"no_trades", "returned"} => fn_out.report = "No trades were executed during this period."

====
